---- MODULE Spec2Model ----
(***************************************************************************)
(* Model of the chart generation pipeline of server-cursor-chart-ai:       *)
(* ChartProcessor (src/src/utils/chartProcessor.js) and the provider       *)
(* adapters it delegates to.                                               *)
(*                                                                         *)
(* A text is a sequence of symbols.  A symbol is one character, except     *)
(* that a few words the code searches for as a whole ("borderColor",       *)
(* "rgba(", the two refusal phrases, "JSON", "API key", "SAFETY", "json")  *)
(* are single symbols: the texts of this model hold these words only as a  *)
(* whole, so String.includes(word) is membership of the symbol.            *)
(* JavaScript indices are kept 0-based: At(s, i) is s[i].                  *)
(***************************************************************************)
EXTENDS Integers, Sequences, FiniteSets, TLC

VARIABLES
  text,       \* harness: the input handed to parseJSON, cleanResponse or a
              \* prompt builder
  phase,      \* harness: "input" / "raw" / "args" before the call, "parsed" /
              \* "cleaned" / "built" after it
  res,        \* harness: what the function produced for text
  adapter,    \* ChartProcessor.adapter (serviceName of the configured adapter)
  aiContextCache,            \* ChartProcessor.aiContextCache
  modificationContextCache,  \* ChartProcessor.modificationContextCache
  pc,         \* per call: position inside generateChart / modifyChart
  kind,       \* per call: "generate" or "modify"
  tmpl,       \* per call: the templateStructure argument
  response,   \* per call: what adapter.generateContent resolved to
  outcome,    \* per call: what the caller received (result or error)
  trace,      \* per call: the methods invoked so far, in order
  envKey,     \* validateApiKey: process.env holds the API key of the adapter
  vpc,        \* per validateApiKey call: its position
  vendorAnswer,  \* per validateApiKey call: what the vendor's test call did
  adapterValid,  \* per validateApiKey call: what adapter.validateApiKey did
  valid,      \* per validateApiKey call: what ChartProcessor.validateApiKey did
  now,             \* authMiddleware: Date.now(), in units of five minutes
  BLOCKED_IPS,     \* authMiddleware: the permanently blocked addresses
  SUSPICIOUS_IPS,  \* authMiddleware: per address, blockedUntil (or no entry)
  rateLimitStore,  \* authMiddleware: per address, the accepted timestamps
  authCache,       \* authMiddleware: per token, expiresAt (or no entry)
  inflight,        \* requireAuth calls suspended at the token validation
  log,             \* the requests rateLimitMiddleware has answered, in order
  authDone,        \* the last request requireAuth has answered
  quota,           \* the requests and admin calls the module may still receive
  oauthSessions    \* sessionStore: per token, the state of its oauth_sessions row

vars == <<text, phase, res, adapter, aiContextCache, modificationContextCache,
          pc, kind, tmpl, response, outcome, trace,
          envKey, vpc, vendorAnswer, adapterValid, valid,
          now, BLOCKED_IPS, SUSPICIOUS_IPS, rateLimitStore, authCache,
          inflight, log, authDone, quota, oauthSessions>>

parseVars == <<text, phase, res>>
procVars == <<adapter, aiContextCache, modificationContextCache,
              pc, kind, tmpl, response, outcome, trace>>
keyVars == <<envKey, vpc, vendorAnswer, adapterValid, valid>>
mwVars == <<now, BLOCKED_IPS, SUSPICIOUS_IPS, rateLimitStore, authCache,
            inflight, log, authDone, quota, oauthSessions>>

----------------------------------------------------------------------------
(* Symbols *)

LB == "{"
RB == "}"
LK == "["
RK == "]"
QT == "\""
BS == "\\"
CL == ":"
CM == ","
SP == " "
LF == "\n"
CR == "\r"
TAB == "\t"
\* the grave accent of a code fence, and the word json
TICK == "GRAVE"
JSONWORD == "json"
BORDERCOLOR == "borderColor"
RGBA == "rgba("
RPAR == ")"
REFUSAL1 == "I apologize, but I could not generate"
REFUSAL2 == "Please try rephrasing your request"

Digits == {"0", "1", "2", "3", "4", "5", "6", "7", "8", "9"}

\* String.prototype.trim strips these (the white space of the alphabet)
IsWs(c) == c \in {SP, LF, CR, TAB}

\* characters JSON.parse rejects when they stand unescaped inside a string
ControlChars == {LF, CR, TAB}

\* 0-based character access and String.prototype.substring
At(s, i) == s[i + 1]
Substring(s, a, b) == SubSeq(s, a + 1, b)

RECURSIVE TrimStart(_)
TrimStart(s) ==
  IF Len(s) > 0 /\ IsWs(s[1]) THEN TrimStart(Tail(s)) ELSE s

RECURSIVE TrimEnd(_)
TrimEnd(s) ==
  IF Len(s) > 0 /\ IsWs(s[Len(s)]) THEN TrimEnd(SubSeq(s, 1, Len(s) - 1)) ELSE s

Trim(s) == TrimEnd(TrimStart(s))

Includes(s, w) == \E i \in DOMAIN s : s[i] = w

StartsWith(s, c) == Len(s) > 0 /\ s[1] = c
EndsWith(s, c) == Len(s) > 0 /\ s[Len(s)] = c

----------------------------------------------------------------------------
(* JSON.parse.  A value is <<"num", digits>>, <<"str", characters>>,       *)
(* <<"arr", elements>> or <<"obj", members>> with members a sequence of    *)
(* <<key, value>> in insertion order.  ctl is the set of characters that   *)
(* are rejected unescaped inside a string: JSON.parse is ctl = ControlChars.*)
(* The literals true/false/null, signs, fractions and exponents cannot     *)
(* occur over the alphabet of the model.                                   *)

ParseFail == [ok |-> FALSE, val |-> <<>>, pos |-> 0]

\* The({ e(x) : x \in {v} }) is e(v) with v computed once
The(S) == CHOOSE x \in S : TRUE

RECURSIVE SkipWs(_, _)
SkipWs(s, i) == IF i <= Len(s) /\ IsWs(s[i]) THEN SkipWs(s, i + 1) ELSE i

\* the character an escape sequence \c stands for ("" when \c is no escape)
Unescape(c) ==
  CASE c = QT -> QT
    [] c = BS -> BS
    [] c = "/" -> "/"
    [] c = "n" -> LF
    [] c = "r" -> CR
    [] c = "t" -> TAB
    [] OTHER -> ""

\* i is the position after the opening quote
RECURSIVE ParseStr(_, _, _, _)
ParseStr(s, i, acc, ctl) ==
  IF i > Len(s) THEN ParseFail
  ELSE IF s[i] = QT THEN [ok |-> TRUE, val |-> acc, pos |-> i + 1]
  ELSE IF s[i] = BS THEN
    IF i + 1 > Len(s) \/ Unescape(s[i + 1]) = "" THEN ParseFail
    ELSE ParseStr(s, i + 2, Append(acc, Unescape(s[i + 1])), ctl)
  ELSE IF s[i] \in ctl THEN ParseFail
  ELSE ParseStr(s, i + 1, Append(acc, s[i]), ctl)

RECURSIVE NumEnd(_, _)
NumEnd(s, i) == IF i <= Len(s) /\ s[i] \in Digits THEN NumEnd(s, i + 1) ELSE i

ParseNum(s, i) ==
  LET e == IF s[i] = "0" THEN i + 1 ELSE NumEnd(s, i)
  IN [ok |-> TRUE, val |-> <<"num", SubSeq(s, i, e - 1)>>, pos |-> e]

\* an object keeps one member per key: a repeated key overwrites the value
\* at the position of its first occurrence
RECURSIVE PutMember(_, _, _)
PutMember(ms, k, v) ==
  IF ms = <<>> THEN << <<k, v>> >>
  ELSE IF ms[1][1] = k THEN << <<k, v>> >> \o Tail(ms)
  ELSE <<ms[1]>> \o PutMember(Tail(ms), k, v)

RECURSIVE ParseValue(_, _, _)
RECURSIVE ParseElems(_, _, _, _)
RECURSIVE ParseMembers(_, _, _, _)

ParseValue(s, i0, ctl) ==
  LET i == SkipWs(s, i0) IN
  IF i > Len(s) THEN ParseFail
  ELSE IF s[i] = QT THEN
    LET r == ParseStr(s, i + 1, <<>>, ctl)
    IN IF r.ok THEN [ok |-> TRUE, val |-> <<"str", r.val>>, pos |-> r.pos]
       ELSE ParseFail
  ELSE IF s[i] \in Digits THEN ParseNum(s, i)
  ELSE IF s[i] = LK THEN
    LET j == SkipWs(s, i + 1)
    IN IF j <= Len(s) /\ s[j] = RK
       THEN [ok |-> TRUE, val |-> <<"arr", <<>>>>, pos |-> j + 1]
       ELSE ParseElems(s, j, <<>>, ctl)
  ELSE IF s[i] = LB THEN
    LET j == SkipWs(s, i + 1)
    IN IF j <= Len(s) /\ s[j] = RB
       THEN [ok |-> TRUE, val |-> <<"obj", <<>>>>, pos |-> j + 1]
       ELSE ParseMembers(s, j, <<>>, ctl)
  ELSE ParseFail

ParseElems(s, i, acc, ctl) ==
  The({
    IF ~r.ok THEN ParseFail
    ELSE LET j == SkipWs(s, r.pos) IN
      IF j > Len(s) THEN ParseFail
      ELSE IF s[j] = CM THEN ParseElems(s, j + 1, Append(acc, r.val), ctl)
      ELSE IF s[j] = RK
        THEN [ok |-> TRUE, val |-> <<"arr", Append(acc, r.val)>>, pos |-> j + 1]
      ELSE ParseFail
    : r \in { ParseValue(s, i, ctl) } })

ParseMembers(s, i0, acc, ctl) ==
  LET i == SkipWs(s, i0) IN
  IF i > Len(s) \/ s[i] # QT THEN ParseFail
  ELSE The({
    IF ~k.ok THEN ParseFail
    ELSE LET c == SkipWs(s, k.pos) IN
      IF c > Len(s) \/ s[c] # CL THEN ParseFail
      ELSE The({
        IF ~r.ok THEN ParseFail
        ELSE LET j == SkipWs(s, r.pos) IN
          IF j > Len(s) THEN ParseFail
          ELSE IF s[j] = CM
            THEN ParseMembers(s, j + 1, PutMember(acc, k.val, r.val), ctl)
          ELSE IF s[j] = RB
            THEN [ok |-> TRUE, val |-> <<"obj", PutMember(acc, k.val, r.val)>>,
                  pos |-> j + 1]
          ELSE ParseFail
        : r \in { ParseValue(s, c + 1, ctl) } })
    : k \in { ParseStr(s, i + 1, <<>>, ctl) } })

ParseWith(s, ctl) ==
  The({ IF r.ok /\ SkipWs(s, r.pos) = Len(s) + 1
        THEN [ok |-> TRUE, val |-> r.val]
        ELSE [ok |-> FALSE, val |-> <<>>]
      : r \in { ParseValue(s, 1, ctl) } })

JSONparse(s) == ParseWith(s, ControlChars)

IsObj(v) == v[1] = "obj"

----------------------------------------------------------------------------
(* ChartProcessor.fixHTMLInJSON: escape \n, \r, \t inside strings *)

\* FixScan that leaves a literal newline inside a string as it is
RECURSIVE FixScanKeepsNewline(_, _, _, _, _)
FixScanKeepsNewline(s, i, inString, escapeNext, fixed) ==
  IF i >= Len(s) THEN fixed
  ELSE LET char == At(s, i) IN
    IF escapeNext THEN FixScanKeepsNewline(s, i + 1, inString, FALSE, Append(fixed, char))
    ELSE IF char = BS THEN FixScanKeepsNewline(s, i + 1, inString, TRUE, Append(fixed, char))
    ELSE IF char = QT THEN FixScanKeepsNewline(s, i + 1, ~inString, FALSE, Append(fixed, char))
    ELSE IF inString /\ char = CR
      THEN FixScanKeepsNewline(s, i + 1, inString, FALSE, fixed \o <<BS, "r">>)
    ELSE IF inString /\ char = TAB
      THEN FixScanKeepsNewline(s, i + 1, inString, FALSE, fixed \o <<BS, "t">>)
    ELSE FixScanKeepsNewline(s, i + 1, inString, FALSE, Append(fixed, char))

RECURSIVE FixScan(_, _, _, _, _)
FixScan(s, i, inString, escapeNext, fixed) ==
  IF i >= Len(s) THEN fixed
  ELSE LET char == At(s, i) IN
    IF escapeNext THEN FixScan(s, i + 1, inString, FALSE, Append(fixed, char))
    ELSE IF char = BS THEN FixScan(s, i + 1, inString, TRUE, Append(fixed, char))
    ELSE IF char = QT THEN FixScan(s, i + 1, ~inString, FALSE, Append(fixed, char))
    ELSE IF inString /\ char = LF
      THEN FixScan(s, i + 1, inString, FALSE, fixed \o <<BS, "n">>)
    ELSE IF inString /\ char = CR
      THEN FixScan(s, i + 1, inString, FALSE, fixed \o <<BS, "r">>)
    ELSE IF inString /\ char = TAB
      THEN FixScan(s, i + 1, inString, FALSE, fixed \o <<BS, "t">>)
    ELSE FixScan(s, i + 1, inString, FALSE, Append(fixed, char))

fixHTMLInJSON(jsonText) == FixScan(jsonText, 0, FALSE, FALSE, <<>>)

----------------------------------------------------------------------------
(* ChartProcessor.attemptJSONRepair *)

\* the first loop: brace depth outside strings, the last index at which the
\* depth returned to zero, and the string state the loop ends in
RECURSIVE BraceScan(_, _, _, _, _, _)
BraceScan(s, i, braceCount, lastValidIndex, inString, escapeNext) ==
  IF i >= Len(s)
  THEN [braceCount |-> braceCount, lastValidIndex |-> lastValidIndex,
        inString |-> inString]
  ELSE LET char == At(s, i) IN
    IF escapeNext THEN BraceScan(s, i + 1, braceCount, lastValidIndex, inString, FALSE)
    ELSE IF char = BS
      THEN BraceScan(s, i + 1, braceCount, lastValidIndex, inString, TRUE)
    ELSE IF char = QT
      THEN BraceScan(s, i + 1, braceCount, lastValidIndex, ~inString, FALSE)
    ELSE IF ~inString /\ char = LB
      THEN BraceScan(s, i + 1, braceCount + 1, lastValidIndex, inString, FALSE)
    ELSE IF ~inString /\ char = RB
      THEN BraceScan(s, i + 1, braceCount - 1,
                     IF braceCount - 1 = 0 THEN i ELSE lastValidIndex,
                     inString, FALSE)
    ELSE BraceScan(s, i + 1, braceCount, lastValidIndex, inString, FALSE)

\* index of the first quote at or after i (Len(s) when there is none)
RECURSIVE NextQuote(_, _)
NextQuote(s, i) ==
  IF i >= Len(s) THEN Len(s)
  ELSE IF At(s, i) = QT THEN i ELSE NextQuote(s, i + 1)

\* end index of a match of /"rgba\([^"]+\)"/ starting at i, or -1
RgbaMatchEnd(s, i) ==
  IF i + 1 < Len(s) /\ At(s, i) = QT /\ At(s, i + 1) = RGBA
  THEN LET q == NextQuote(s, i + 2)
       IN IF q < Len(s) /\ q >= i + 4 /\ At(s, q - 1) = RPAR THEN q + 1 ELSE -1
  ELSE -1

\* end index of the last match of matchAll(/"rgba\([^"]+\)"/g), or -1
RECURSIVE LastRgbaEnd(_, _, _)
LastRgbaEnd(s, i, last) ==
  IF i >= Len(s) THEN last
  ELSE LET e == RgbaMatchEnd(s, i)
       IN IF e # -1 THEN LastRgbaEnd(s, e, e) ELSE LastRgbaEnd(s, i + 1, last)

\* '\n        ]\n      }\n    ]\n  }\n}'
RgbaClosing ==
  <<LF, SP, SP, SP, SP, SP, SP, SP, SP, RK, LF, SP, SP, SP, SP, SP, SP, RB,
    LF, SP, SP, SP, SP, RK, LF, SP, SP, RB, LF, RB>>

\* the quote loop of the unterminated-string stage: the index of the last
\* odd-numbered quote that is not preceded by a backslash, or -1
RECURSIVE QuoteScan(_, _, _, _)
QuoteScan(s, i, quoteCount, lastOpenQuoteIndex) ==
  IF i >= Len(s) THEN lastOpenQuoteIndex
  ELSE IF At(s, i) = QT /\ (i = 0 \/ At(s, i - 1) # BS)
    THEN QuoteScan(s, i + 1, quoteCount + 1,
                   IF (quoteCount + 1) % 2 = 1 THEN i ELSE lastOpenQuoteIndex)
  ELSE QuoteScan(s, i + 1, quoteCount, lastOpenQuoteIndex)

\* '"]}}'
StringClosing == <<QT, RK, RB, RB>>

\* the last loop: net count of [ ] and of { } outside strings
RECURSIVE BracketScan(_, _, _, _, _, _)
BracketScan(s, i, arrayCount, objectCount, inString, escapeNext) ==
  IF i >= Len(s) THEN [arrayCount |-> arrayCount, objectCount |-> objectCount]
  ELSE LET char == At(s, i) IN
    IF escapeNext THEN BracketScan(s, i + 1, arrayCount, objectCount, inString, FALSE)
    ELSE IF char = BS
      THEN BracketScan(s, i + 1, arrayCount, objectCount, inString, TRUE)
    ELSE IF char = QT
      THEN BracketScan(s, i + 1, arrayCount, objectCount, ~inString, FALSE)
    ELSE IF ~inString /\ char = LK
      THEN BracketScan(s, i + 1, arrayCount + 1, objectCount, inString, FALSE)
    ELSE IF ~inString /\ char = RK
      THEN BracketScan(s, i + 1, arrayCount - 1, objectCount, inString, FALSE)
    ELSE IF ~inString /\ char = LB
      THEN BracketScan(s, i + 1, arrayCount, objectCount + 1, inString, FALSE)
    ELSE IF ~inString /\ char = RB
      THEN BracketScan(s, i + 1, arrayCount, objectCount - 1, inString, FALSE)
    ELSE BracketScan(s, i + 1, arrayCount, objectCount, inString, FALSE)

RECURSIVE Repeat(_, _)
Repeat(c, n) == IF n <= 0 THEN <<>> ELSE <<c>> \o Repeat(c, n - 1)

\* CloseBrackets that completes the text with a value before it closes it
CloseBracketsAddsValue(repaired, arrayCount, objectCount) ==
  repaired \o <<"1">> \o Repeat(RK, arrayCount) \o Repeat(RB, objectCount)

\* "Add missing closing brackets": every ']' first, then every '}'
CloseBrackets(repaired, arrayCount, objectCount) ==
  repaired \o Repeat(RK, arrayCount) \o Repeat(RB, objectCount)

\* the stages of the repair, in the order the code reaches them
StageOrder ==
  <<"fixHTMLInJSON", "braceTruncation", "rgbaClosure", "stringClosure",
    "bracketClosure">>

Repaired(t, n) == [isNull |-> FALSE, text |-> t, stages |-> SubSeq(StageOrder, 1, n)]
RepairNull(n) == [isNull |-> TRUE, text |-> <<>>, stages |-> SubSeq(StageOrder, 1, n)]

\* the result is the repaired text (or null) and the stages that were run
RepairStages(repaired) ==
  IF JSONparse(repaired).ok THEN Repaired(repaired, 1)
  ELSE
  LET sc == BraceScan(repaired, 0, 0, -1, FALSE, FALSE) IN
  IF sc.lastValidIndex > 0 /\ sc.lastValidIndex < Len(repaired) - 1
  THEN Repaired(Substring(repaired, 0, sc.lastValidIndex + 1), 2)
  ELSE
  LET lastMatchEnd == LastRgbaEnd(repaired, 0, -1)
      afterLastRgba == Substring(repaired, lastMatchEnd, Len(repaired))
  IN
  IF /\ Includes(repaired, BORDERCOLOR) /\ Includes(repaired, RGBA)
     /\ lastMatchEnd # -1
     /\ Trim(afterLastRgba) # <<>> /\ ~Includes(afterLastRgba, RK)
  THEN Repaired(Substring(repaired, 0, lastMatchEnd) \o RgbaClosing, 3)
  ELSE
  LET lastOpenQuoteIndex == QuoteScan(repaired, 0, 0, -1) IN
  IF sc.inString /\ lastOpenQuoteIndex > -1
  THEN Repaired(Substring(repaired, 0, lastOpenQuoteIndex + 1) \o StringClosing, 4)
  ELSE
  LET bc == BracketScan(repaired, 0, 0, 0, FALSE, FALSE) IN
  IF bc.arrayCount < 0 \/ bc.objectCount < 0 THEN RepairNull(5)
  ELSE Repaired(CloseBrackets(repaired, bc.arrayCount, bc.objectCount), 5)

attemptJSONRepair(jsonText) ==
  The({ RepairStages(repaired) : repaired \in { fixHTMLInJSON(Trim(jsonText)) } })

----------------------------------------------------------------------------
(* ChartProcessor.parseJSON *)

DiagEmpty == "Response was empty"
DiagNotJson == "Response does not appear to be JSON (missing opening brace)"
DiagTruncated == "Response appears to be truncated (missing closing brace)"
DiagParser == "parseError.message"

errorDetails(jsonText) ==
  IF Len(jsonText) = 0 THEN DiagEmpty
  ELSE IF ~StartsWith(Trim(jsonText), LB) THEN DiagNotJson
  ELSE IF ~EndsWith(Trim(jsonText), RB) THEN DiagTruncated
  ELSE DiagParser

\* the catch block of parseJSON, once the repair has answered rep and the
\* second JSON.parse has answered again
AfterRepair(jsonText, serviceName, rep, again) ==
  IF again.ok
  THEN [ok |-> TRUE, val |-> again.val, by |-> rep.stages[Len(rep.stages)],
        stages |-> rep.stages, parsed |-> rep.text, message |-> <<>>]
  ELSE [ok |-> FALSE, val |-> <<>>, by |-> "none", stages |-> rep.stages,
        parsed |-> <<>>,
        message |-> <<"Failed to parse ", serviceName, " response as valid ",
                      "JSON", ": ", errorDetails(jsonText)>>]

RepairAndParse(jsonText, serviceName) ==
  The({ The({ AfterRepair(jsonText, serviceName, rep, again)
              : again \in { IF ~rep.isNull /\ rep.text # <<>>
                            THEN JSONparse(rep.text)
                            ELSE [ok |-> FALSE, val |-> <<>>] } })
        : rep \in { attemptJSONRepair(jsonText) } })

\* parseJSON that hands every text to the repair, valid or not
parseJSONAlwaysRepairs(jsonText, serviceName) ==
  RepairAndParse(jsonText, serviceName)

\* ok: a value is returned; by: the stage whose text was parsed ("strict"
\* for the first JSON.parse); stages: the repair stages that were run;
\* message: the message of the Error thrown when ok is FALSE
parseJSON(jsonText, serviceName) ==
  The({ IF strict.ok
        THEN [ok |-> TRUE, val |-> strict.val, by |-> "strict", stages |-> <<>>,
              parsed |-> jsonText, message |-> <<>>]
        ELSE RepairAndParse(jsonText, serviceName)
      : strict \in { JSONparse(jsonText) } })

----------------------------------------------------------------------------
(* ChartProcessor.cleanResponse *)

EmptyResponseMsg == <<"Empty response from AI service">>
RefusalMsg ==
  <<"AI service could not generate chart data - please try rephrasing your request">>

RECURSIVE StripLeadingTicks(_)
StripLeadingTicks(s) ==
  IF Len(s) > 0 /\ s[1] = TICK THEN StripLeadingTicks(Tail(s)) ELSE s

RECURSIVE StripTrailingTicks(_)
StripTrailingTicks(s) ==
  IF Len(s) > 0 /\ s[Len(s)] = TICK
  THEN StripTrailingTicks(SubSeq(s, 1, Len(s) - 1)) ELSE s

StartsWithFence(s) == Len(s) >= 3 /\ s[1] = TICK /\ s[2] = TICK /\ s[3] = TICK

\* replace(/^ + n opening symbols + \s*/, '')
StripFenceStart(s, n) == TrimStart(SubSeq(s, n + 1, Len(s)))

\* replace(/\s* + three grave accents + $/, '')
StripFenceEnd(s) ==
  IF Len(s) >= 3 /\ s[Len(s)] = TICK /\ s[Len(s) - 1] = TICK /\ s[Len(s) - 2] = TICK
  THEN TrimEnd(SubSeq(s, 1, Len(s) - 3))
  ELSE s

\* cleanResponse without the check for a refusal phrase
cleanResponseNoRefusalCheck(responseText) ==
  IF responseText = <<>>
  THEN [threw |-> TRUE, message |-> EmptyResponseMsg, text |-> <<>>]
  ELSE LET cleaned == Trim(responseText)
           unfenced ==
               IF StartsWithFence(cleaned) /\ Len(cleaned) >= 4 /\ cleaned[4] = JSONWORD
               THEN StripFenceEnd(StripFenceStart(cleaned, 4))
               ELSE IF StartsWithFence(cleaned)
               THEN StripFenceEnd(StripFenceStart(cleaned, 3))
               ELSE cleaned
       IN [threw |-> FALSE, message |-> <<>>,
           text |-> Trim(StripTrailingTicks(StripLeadingTicks(unfenced)))]

\* threw: cleanResponse throws message; otherwise text is the candidate text
cleanResponse(responseText) ==
  IF responseText = <<>>
  THEN [threw |-> TRUE, message |-> EmptyResponseMsg, text |-> <<>>]
  ELSE LET cleaned == Trim(responseText) IN
    IF Includes(cleaned, REFUSAL1) \/ Includes(cleaned, REFUSAL2)
    THEN [threw |-> TRUE, message |-> RefusalMsg, text |-> <<>>]
    ELSE LET unfenced ==
               IF StartsWithFence(cleaned) /\ Len(cleaned) >= 4 /\ cleaned[4] = JSONWORD
               THEN StripFenceEnd(StripFenceStart(cleaned, 4))
               ELSE IF StartsWithFence(cleaned)
               THEN StripFenceEnd(StripFenceStart(cleaned, 3))
               ELSE cleaned
         IN [threw |-> FALSE, message |-> <<>>,
             text |-> Trim(StripTrailingTicks(StripLeadingTicks(unfenced)))]

----------------------------------------------------------------------------
(* Adapters: serviceName, enhanceError, getAdditionalMetadata *)

Adapters == {"openrouter", "perplexity", "google"}

\* the status of an error without a status property
NoStatus == 0

AuthMsg(a) ==
  CASE a = "openrouter" -> <<"Invalid OpenRouter API key">>
    [] a = "perplexity" -> <<"Invalid Perplexity API key">>
    [] a = "google" -> <<"Invalid Google Gemini API key">>

RateLimitMsg(a) ==
  CASE a = "openrouter" -> <<"OpenRouter API rate limit exceeded">>
    [] a = "perplexity" -> <<"Perplexity API rate limit exceeded">>
    [] a = "google" -> <<"Google Gemini API rate limit exceeded">>

ServerErrorMsg(a) ==
  CASE a = "openrouter" -> <<"OpenRouter API server error">>
    [] a = "perplexity" -> <<"Perplexity API server error">>
    [] a = "google" -> <<"Google Gemini API server error">>

UnknownPrefix(a) ==
  CASE a = "openrouter" -> "OpenRouter API error: "
    [] a = "perplexity" -> "Perplexity API error: "
    [] a = "google" -> "Google Gemini API error: "

CreditsMsg == <<"OpenRouter insufficient credits">>
SafetyMsg == <<"Google Gemini blocked the request due to safety concerns">>

OpenRouterEnhanceError(error) ==
  IF error.status = 401 THEN AuthMsg("openrouter")
  ELSE IF error.status = 429 THEN RateLimitMsg("openrouter")
  ELSE IF error.status >= 500 THEN ServerErrorMsg("openrouter")
  ELSE IF error.status = 402 THEN CreditsMsg
  ELSE <<UnknownPrefix("openrouter")>> \o error.message

PerplexityEnhanceError(error) ==
  IF error.status = 401 THEN AuthMsg("perplexity")
  ELSE IF error.status = 429 THEN RateLimitMsg("perplexity")
  ELSE IF error.status >= 500 THEN ServerErrorMsg("perplexity")
  ELSE <<UnknownPrefix("perplexity")>> \o error.message

GoogleEnhanceError(error) ==
  IF error.status = 401 \/ Includes(error.message, "API key") THEN AuthMsg("google")
  ELSE IF error.status = 429 THEN RateLimitMsg("google")
  ELSE IF error.status >= 500 THEN ServerErrorMsg("google")
  ELSE IF Includes(error.message, "SAFETY") THEN SafetyMsg
  ELSE <<UnknownPrefix("google")>> \o error.message

adapterEnhanceError(a, error) ==
  CASE a = "openrouter" -> OpenRouterEnhanceError(error)
    [] a = "perplexity" -> PerplexityEnhanceError(error)
    [] a = "google" -> GoogleEnhanceError(error)

\* ChartProcessor.enhanceError: the message of the Error the caller gets, and
\* whether the adapter was asked
enhanceError(a, error) ==
  IF Includes(error.message, "JSON")
  THEN [message |-> <<"Failed to parse ", a, " response as valid ", "JSON">>,
        delegated |-> FALSE]
  ELSE [message |-> adapterEnhanceError(a, error), delegated |-> TRUE]

----------------------------------------------------------------------------
(* JavaScript values of a parsed response *)

Undefined == <<"undefined">>
Null == <<"null">>
StrVal(w) == <<"str", <<w>>>>

RECURSIVE Lookup(_, _)
Lookup(ms, k) ==
  IF ms = <<>> THEN Undefined
  ELSE IF ms[1][1] = k THEN ms[1][2]
  ELSE Lookup(Tail(ms), k)

\* v.key: only a parsed object has the properties the processor reads
Get(v, key) == IF v[1] = "obj" THEN Lookup(v[2], <<key>>) ELSE Undefined

Truthy(v) ==
  CASE v[1] = "undefined" -> FALSE
    [] v[1] = "null" -> FALSE
    [] v[1] = "num" -> v[2] # <<"0">>
    [] v[1] = "str" -> v[2] # <<>>
    [] OTHER -> TRUE

IsPrimitive(v) == v[1] \in {"num", "str"}

\* an assignment that leaves a property the value already has
SetPropKeepsExisting(v, key, x) ==
  IF v[1] = "obj"
  THEN (IF Lookup(v[2], <<key>>) = Undefined
        THEN <<"obj", PutMember(v[2], <<key>>, x)>> ELSE v)
  ELSE <<"arr", v[2], << <<(<<key>>), x>> >> >>

\* v.key = x on an object or an array (an array keeps it as an own property)
SetProp(v, key, x) ==
  IF v[1] = "obj" THEN <<"obj", PutMember(v[2], <<key>>, x)>>
  ELSE <<"arr", v[2], << <<(<<key>>), x>> >> >>

----------------------------------------------------------------------------
(* ChartProcessor.buildMetadata and the adapters' getAdditionalMetadata *)

\* the model argument of the calls
ModelArg == "sonar-pro"

\* model?.split('/')?.[0] || 'unknown'  (ModelArg holds no slash)
extractProvider(model) == model

getModelFamily(model) == IF model = "sonar-pro" THEN "sonar" ELSE "unknown"

getAdditionalMetadata(a, resp, model) ==
  CASE a = "openrouter" ->
         << <<(<<"provider">>), StrVal(extractProvider(model))>>,
            <<(<<"model_full_name">>), StrVal(model)>>,
            <<(<<"finish_reason">>), Null>>,
            <<(<<"prompt_tokens">>), Null>>,
            <<(<<"completion_tokens">>), Null>> >>
    [] a = "perplexity" ->
         << <<(<<"model_family">>), StrVal(getModelFamily(model))>>,
            <<(<<"finish_reason">>), Null>>,
            <<(<<"citations">>), Null>> >>
    [] a = "google" ->
         << <<(<<"model_full_name">>), StrVal(model)>>,
            <<(<<"safety_ratings">>), Null>> >>

\* { ...baseMetadata, ...additional }: a later key overwrites an earlier one
RECURSIVE Spread(_, _)
Spread(base, extra) ==
  IF extra = <<>> THEN base
  ELSE Spread(PutMember(base, extra[1][1], extra[1][2]), Tail(extra))

buildMetadata(a, resp, model) ==
  LET baseMetadata ==
        << <<(<<"service">>), StrVal(a)>>,
           <<(<<"model">>), StrVal(model)>>,
           <<(<<"timestamp">>), StrVal("new Date().toISOString()")>>,
           <<(<<"tokens_used">>),
             IF resp.tokensUsed \in {<<>>, <<"0">>} THEN Null
             ELSE <<"num", resp.tokensUsed>> >> >>
  IN <<"obj", Spread(baseMetadata, getAdditionalMetadata(a, resp, model))>>

----------------------------------------------------------------------------
(* The synchronous tail of generateChart / modifyChart, after the adapter  *)
(* has answered.  An outcome is what the caller of the call receives:      *)
(* status "returned" with value, or status "threw" with the message of the *)
(* Error; cause is the error the catch block caught and origin the step    *)
(* that threw it; tr lists the methods that ran.                           *)

MissingChartTypeMsg == <<"AI response missing ", "chartType", " field">>
MissingDataMsg == <<"AI response missing chart data">>
PrimitiveMsg == <<"Cannot create property _metadata on a primitive value">>

\* a default user_message that does not name the service
DefaultUserMessageAnonymous(a) == <<"str", <<"Chart generated successfully">>>>

DefaultUserMessage(a) == <<"str", <<"Chart generated successfully using ", a>>>>

Returned(v, ran) ==
  [status |-> "returned", value |-> v, message |-> <<>>,
   cause |-> [status |-> NoStatus, message |-> <<>>], origin |-> "none", tr |-> ran]

\* catch (error) { throw this.enhanceError(error) }
Thrown(a, error, origin, ran) ==
  LET e == enhanceError(a, error) IN
  [status |-> "threw", value |-> <<>>, message |-> e.message,
   cause |-> error, origin |-> origin,
   tr |-> ran \o <<"enhanceError">>
              \o (IF e.delegated THEN <<"adapter.enhanceError">> ELSE <<>>)]

PlainError(m) == [status |-> NoStatus, message |-> m]

\* the steps after parseJSON, with the data payload validated before chartType
AfterParseDataFirst(a, k, resp, chartData) ==
  LET ran == <<"cleanResponse", "parseJSON">>
             \o (IF chartData.by # "strict" THEN <<"attemptJSONRepair">> ELSE <<>>)
      meta == <<"buildMetadata", "adapter.getAdditionalMetadata">>
  IN
  IF ~chartData.ok THEN Thrown(a, PlainError(chartData.message), "parseJSON", ran)
  ELSE IF k = "generate" THEN
    IF ~Truthy(Get(chartData.val, "data")) /\ ~Truthy(Get(chartData.val, "chartData"))
    THEN Thrown(a, PlainError(MissingDataMsg), "validation", ran)
    ELSE IF ~Truthy(Get(chartData.val, "chartType"))
    THEN Thrown(a, PlainError(MissingChartTypeMsg), "validation", ran)
    ELSE
      LET withMsg == IF ~Truthy(Get(chartData.val, "user_message"))
                     THEN SetProp(chartData.val, "user_message", DefaultUserMessage(a))
                     ELSE chartData.val
      IN Returned(SetProp(withMsg, "_metadata", buildMetadata(a, resp, ModelArg)),
                  ran \o meta)
  ELSE
    IF IsPrimitive(chartData.val)
    THEN Thrown(a, PlainError(PrimitiveMsg), "metadata", ran \o meta)
    ELSE Returned(SetProp(chartData.val, "_metadata", buildMetadata(a, resp, ModelArg)),
                  ran \o meta)

\* the steps after parseJSON has answered chartData (the parse result)
AfterParse(a, k, resp, chartData) ==
  LET ran == <<"cleanResponse", "parseJSON">>
             \o (IF chartData.by # "strict" THEN <<"attemptJSONRepair">> ELSE <<>>)
      meta == <<"buildMetadata", "adapter.getAdditionalMetadata">>
  IN
  IF ~chartData.ok THEN Thrown(a, PlainError(chartData.message), "parseJSON", ran)
  ELSE IF k = "generate" THEN
    IF ~Truthy(Get(chartData.val, "chartType"))
    THEN Thrown(a, PlainError(MissingChartTypeMsg), "validation", ran)
    ELSE IF ~Truthy(Get(chartData.val, "data")) /\ ~Truthy(Get(chartData.val, "chartData"))
    THEN Thrown(a, PlainError(MissingDataMsg), "validation", ran)
    ELSE
      LET withMsg == IF ~Truthy(Get(chartData.val, "user_message"))
                     THEN SetProp(chartData.val, "user_message", DefaultUserMessage(a))
                     ELSE chartData.val
      IN Returned(SetProp(withMsg, "_metadata", buildMetadata(a, resp, ModelArg)),
                  ran \o meta)
  ELSE
    IF IsPrimitive(chartData.val)
    THEN Thrown(a, PlainError(PrimitiveMsg), "metadata", ran \o meta)
    ELSE Returned(SetProp(chartData.val, "_metadata", buildMetadata(a, resp, ModelArg)),
                  ran \o meta)

\* ProcessResponse that validates the data payload before chartType
ProcessResponseDataFirst(a, k, resp) ==
  The({ IF cr.threw
        THEN Thrown(a, PlainError(cr.message), "cleanResponse", <<"cleanResponse">>)
        ELSE The({ AfterParseDataFirst(a, k, resp, chartData)
                   : chartData \in { parseJSON(cr.text, a) } })
      : cr \in { cleanResponse(resp.content) } })

ProcessResponse(a, k, resp) ==
  The({ IF cr.threw
        THEN Thrown(a, PlainError(cr.message), "cleanResponse", <<"cleanResponse">>)
        ELSE The({ AfterParse(a, k, resp, chartData)
                   : chartData \in { parseJSON(cr.text, a) } })
      : cr \in { cleanResponse(resp.content) } })

----------------------------------------------------------------------------
(* Inputs of the parser harness *)

\* nesting depth of the generated JSON values
MaxDepth == 2
\* length of the garbage appended to a complete object
MaxGarbage == 2
\* length of the texts that are enumerated exhaustively
MaxShort == 3

Quoted(cs) == <<QT>> \o cs \o <<QT>>

\* values of depth 0: a number, strings (one with an escaped newline, ones
\* with a literal newline, one holding a brace), the empty array and object
Scalars ==
  { <<"1">>, Quoted(<<"a">>), Quoted(<<BS, "n">>), Quoted(<<"a", LF, "a">>),
    Quoted(<<BS, BS, LF>>), Quoted(<<RB>>) }

SecondValues == { <<"1">>, Quoted(<<LF>>) }

RECURSIVE Vals(_)
Vals(d) ==
  IF d = 0 THEN Scalars \cup { <<LK, RK>>, <<LB, RB>> }
  ELSE LET P == Vals(d - 1) IN
    Vals(0)
    \cup { <<LK>> \o v \o <<RK>> : v \in P }
    \cup { <<LB>> \o Quoted(<<"a">>) \o <<CL>> \o v \o <<RB>> : v \in P }
    \cup { <<LB, LF>> \o Quoted(<<"a">>) \o <<CL>> \o v \o <<RB>> : v \in P }
    \cup { <<LK>> \o v \o <<CM>> \o w \o <<RK>> : v \in P, w \in SecondValues }
    \cup { <<LB>> \o Quoted(<<"a">>) \o <<CL>> \o v \o <<CM>> \o Quoted(<<"b">>)
           \o <<CL>> \o w \o <<RB>> : v \in P, w \in SecondValues }

RECURSIVE SeqsUpTo(_, _)
SeqsUpTo(A, n) ==
  IF n = 0 THEN { <<>> }
  ELSE LET P == SeqsUpTo(A, n - 1) IN P \cup { Append(p, a) : p \in P, a \in A }

\* one, two or three closing brackets
ClosingSeqs == SeqsUpTo({RK, RB}, 3) \ { <<>> }

\* texts that lost their last one, two or three closing brackets
TruncatedTexts ==
  { t \in { SubSeq(v, 1, Len(v) - k) :
              v \in { w \in Vals(MaxDepth) : Len(w) > 3 }, k \in {1, 2, 3} } :
      \E cs \in ClosingSeqs : JSONparse(t \o cs).ok }

GarbageAlphabet == {LB, RB, LK, RK, QT, CM, SP, "a"}

GarbageTexts ==
  { o \o g : o \in { v \in Vals(1) : v[1] = LB },
             g \in SeqsUpTo(GarbageAlphabet, MaxGarbage) \ { <<>> } }

ShortAlphabet == {LB, RB, LK, RK, QT, CL, CM, BS, LF, SP, "1", "a"}

ShortTexts == SeqsUpTo(ShortAlphabet, MaxShort)

\* "rgba(1)", and the shape the rgba stage was written for, up to the first
\* colour: {"a":{"a":[{"borderColor":["rgba(1)"
RgbaStr == <<QT, RGBA, "1", RPAR, QT>>
RgbaOpen ==
  <<LB>> \o Quoted(<<"a">>) \o <<CL, LB>> \o Quoted(<<"a">>) \o <<CL, LK, LB>>
  \o Quoted(<<BORDERCOLOR>>) \o <<CL, LK>> \o RgbaStr

\* responses cut inside the colour array, and objects that hold a complete
\* colour followed by an unclosed array or object elsewhere
RgbaTexts ==
  { RgbaOpen \o <<CM>>,
    RgbaOpen \o <<CM, LF>> \o RgbaStr \o <<CM, LF>>,
    RgbaOpen \o <<CM, LF, QT, RGBA, "1">>,
    RgbaOpen,
    <<LB>> \o Quoted(<<BORDERCOLOR>>) \o <<CL>> \o RgbaStr \o <<CM>>
      \o Quoted(<<"a">>) \o <<CL, LK, "1">>,
    <<LB>> \o Quoted(<<BORDERCOLOR>>) \o <<CL>> \o RgbaStr \o <<CM>>
      \o Quoted(<<"a">>) \o <<CL, LB>> \o Quoted(<<"b">>) \o <<CL, "1">>,
    <<LB>> \o Quoted(<<BORDERCOLOR>>) \o <<CL>> \o RgbaStr \o <<RB>> \o <<"a">> }

\* responses cut inside a string value: {"a":"a  {"a":["a  {"a":{"a":["a
\* ["a  {"a":{"a":"a  and one cut right after an escaped quote
StringCutTexts ==
  { <<LB>> \o Quoted(<<"a">>) \o <<CL, QT, "a">>,
    <<LB>> \o Quoted(<<"a">>) \o <<CL, LK, QT, "a">>,
    <<LB>> \o Quoted(<<"a">>) \o <<CL, LB>> \o Quoted(<<"a">>) \o <<CL, LK, QT, "a">>,
    <<LK, QT, "a", "a">>,
    <<LB>> \o Quoted(<<"a">>) \o <<CL, LB>> \o Quoted(<<"a">>) \o <<CL, QT, "a">>,
    <<LB>> \o Quoted(<<"a">>) \o <<CL, LB>> \o Quoted(<<"a">>)
      \o <<CL, LK, QT, "a", BS, QT>> }

Inputs ==
  Vals(MaxDepth) \cup TruncatedTexts \cup GarbageTexts \cup ShortTexts
  \cup RgbaTexts \cup StringCutTexts

----------------------------------------------------------------------------
(* Inputs of the processor: what adapter.generateContent resolves to or    *)
(* rejects with                                                            *)

Key(w) == Quoted(<<w>>)
Member(w, v) == Key(w) \o <<CL>> \o v

TypeM == Member("chartType", Quoted(<<"bar">>))
DataM == Member("chartData", <<LB, RB>>)
AliasM == Member("data", <<LB, RB>>)
MsgM == Member("user_message", Quoted(<<"done">>))
\* a _metadata written by the backend
MetaM == Member("_metadata", <<LB>> \o Member("service", Quoted(<<"x">>)) \o <<RB>>)

Obj1(m) == <<LB>> \o m \o <<RB>>
Obj2(m, n) == <<LB>> \o m \o <<CM>> \o n \o <<RB>>
Obj3(m, n, o) == <<LB>> \o m \o <<CM>> \o n \o <<CM>> \o o \o <<RB>>

Contents ==
  { <<>>, <<SP>>,
    Obj2(TypeM, DataM), Obj2(TypeM, AliasM), Obj3(TypeM, DataM, MsgM),
    Obj1(DataM), Obj1(TypeM), Obj1(MsgM),
    Obj2(Member("chartType", Quoted(<<>>)), DataM),
    <<TICK, TICK, TICK, JSONWORD, LF>> \o Obj2(TypeM, DataM) \o <<LF, TICK, TICK, TICK>>,
    Obj2(TypeM, DataM) \o <<"a">>,
    <<LB>> \o TypeM \o <<CM>> \o Member("chartData", <<LB>>),
    <<LB>> \o TypeM \o <<CM>>,
    <<LK, "1", CM, "2">>, <<"1">>,
    <<REFUSAL1>>, <<SP, "a", REFUSAL2>>,
    <<TICK, TICK, TICK, LF, REFUSAL1, LF, TICK, TICK, TICK>>,
    Obj3(TypeM, DataM, Member("user_message", Quoted(<<REFUSAL2>>))),
    Obj3(TypeM, DataM, Member("user_message", Quoted(<<>>))),
    Obj3(TypeM, DataM, MetaM) }

Responses == { [content |-> c, tokensUsed |-> <<"7">>] : c \in Contents }
             \cup { [content |-> Obj2(TypeM, DataM), tokensUsed |-> <<>>] }

Statuses == {NoStatus, 400, 401, 402, 429, 500, 503}

ErrorMessages ==
  { <<"Connection error.">>, <<"Unexpected token in ", "JSON">>,
    <<"API key", " not valid">>, <<"SAFETY">> }

AdapterErrors == [status : Statuses, message : ErrorMessages]

\* the answers of the adapter to a call: the first call meets every answer,
\* a call running beside it a few of them
ResponsesOf(c) ==
  IF c = "c1" THEN Responses
  ELSE { [content |-> k, tokensUsed |-> <<"7">>] :
           k \in { Obj2(TypeM, DataM), Obj1(MsgM), <<REFUSAL1>> } }

ErrorsOf(c) ==
  IF c = "c1" THEN AdapterErrors
  ELSE { [status |-> 429, message |-> <<"Connection error.">>] }

----------------------------------------------------------------------------
(* The processor: generateChart and modifyChart as calls that suspend at   *)
(* the context read and at the adapter call                                *)

Calls == {"c1", "c2"}
Kinds == {"generate", "modify"}

\* templateStructure: absent, complete, or an object without sections
Templates == {"null", "valid", "noSections"}

NullCache == "null"
FileContent == "instructional context"

NoResponse == [content |-> <<>>, tokensUsed |-> <<>>]
Pending ==
  [status |-> "pending", value |-> <<>>, message |-> <<>>,
   cause |-> [status |-> NoStatus, message |-> <<>>], origin |-> "none"]
NoRes ==
  [ok |-> FALSE, val |-> <<>>, by |-> "none", stages |-> <<>>, parsed |-> <<>>,
   message |-> <<>>]

ReadErrorMsg == <<"ENOENT: no such file or directory">>
SectionsErrorMsg == <<"Cannot read properties of undefined (reading filter)">>

\* no validateApiKey call was made
NotCalled == [status |-> "pending", value |-> FALSE]
KeyIdle ==
  /\ envKey = TRUE
  /\ vpc = [c \in Calls |-> "idle"]
  /\ vendorAnswer = [c \in Calls |-> "none"]
  /\ adapterValid = [c \in Calls |-> NotCalled]
  /\ valid = [c \in Calls |-> NotCalled]

\* the addresses and the access tokens of the requests
IPs == {"10.0.0.1", "10.0.0.2"}
NoToken == ""
Tokens == {"tok"}

\* Map.get of a key without entry
NoEntry == -1

NoRequest == [ip |-> "none", token |-> NoToken, result |-> "none",
              blocked |-> FALSE, cached |-> FALSE, revoked |-> FALSE]

\* the oauth_sessions row of a token: "none" (the token is no token of an
\* OAuth session), "live", "signingOut" (deleted by a signOut that has not
\* answered yet) or "deleted" (deleted by a signOut that has completed)
NoSessions == [t \in Tokens |-> "none"]

\* the module authMiddleware.js right after it was loaded
MwLoaded ==
  /\ now = 0
  /\ BLOCKED_IPS = {}
  /\ SUSPICIOUS_IPS = [ip \in IPs |-> NoEntry]
  /\ rateLimitStore = [ip \in IPs |-> <<>>]
  /\ authCache = [t \in Tokens |-> NoEntry]
  /\ inflight = {}
  /\ log = <<>>
  /\ authDone = NoRequest

\* the first address sends n requests to the rate limiter, every other m
RateQuota(n, m) == [ip \in IPs |-> IF ip = "10.0.0.1" THEN n ELSE m]

MwIdle ==
  /\ MwLoaded
  /\ quota = [rate |-> RateQuota(0, 0), auth |-> 0, admin |-> 0, ticks |-> 0]
  /\ oauthSessions = NoSessions

ProcIdle ==
  /\ aiContextCache = NullCache
  /\ modificationContextCache = NullCache
  /\ pc = [c \in Calls |-> "idle"]
  /\ kind = [c \in Calls |-> "generate"]
  /\ tmpl = [c \in Calls |-> "null"]
  /\ response = [c \in Calls |-> NoResponse]
  /\ outcome = [c \in Calls |-> Pending]
  /\ trace = [c \in Calls |-> <<>>]

Init ==
  /\ adapter \in Adapters
  /\ ProcIdle
  /\ KeyIdle
  /\ MwIdle
  /\ text = <<>>
  /\ phase = "unused"
  /\ res = NoRes

ContextCache(k) == IF k = "generate" THEN aiContextCache ELSE modificationContextCache

\* Finish that starts the call over when the response could not be parsed
FinishRetrying(c, o) ==
  IF o.status = "threw" /\ o.origin = "parseJSON"
  THEN /\ pc' = [pc EXCEPT ![c] = "haveContext"]
       /\ trace' = [trace EXCEPT ![c] = @ \o o.tr]
       /\ UNCHANGED outcome
  ELSE /\ pc' = [pc EXCEPT ![c] = "done"]
       /\ outcome' = [outcome EXCEPT ![c] = [f \in DOMAIN Pending |-> o[f]]]
       /\ trace' = [trace EXCEPT ![c] = @ \o o.tr]

\* the call ends: the caller receives o, a result or the enhanced error
Finish(c, o) ==
  /\ pc' = [pc EXCEPT ![c] = "done"]
  /\ outcome' = [outcome EXCEPT ![c] = [f \in DOMAIN Pending |-> o[f]]]
  /\ trace' = [trace EXCEPT ![c] = @ \o o.tr]

\* generateChart / modifyChart up to the await of getAIContext /
\* getModificationContext: a null cache starts fs.readFile
StartCall(c) ==
  /\ pc[c] = "idle"
  /\ \E k \in Kinds, t \in Templates :
       /\ kind' = [kind EXCEPT ![c] = k]
       /\ tmpl' = [tmpl EXCEPT ![c] = t]
       /\ IF ContextCache(k) = NullCache
          THEN /\ pc' = [pc EXCEPT ![c] = "awaitRead"]
               /\ trace' = [trace EXCEPT ![c] = <<k, "getContext", "fs.readFile">>]
          ELSE /\ pc' = [pc EXCEPT ![c] = "haveContext"]
               /\ trace' = [trace EXCEPT ![c] = <<k, "getContext">>]
  /\ UNCHANGED <<text, phase, res, adapter, aiContextCache,
                 modificationContextCache, response, outcome>>

\* ReadSettles that stores the rejection of fs.readFile in the cache
ReadSettlesCachesFailure(c) ==
  /\ pc[c] = "awaitRead"
  /\ \/ /\ IF kind[c] = "generate"
           THEN /\ aiContextCache' = FileContent
                /\ UNCHANGED modificationContextCache
           ELSE /\ modificationContextCache' = FileContent
                /\ UNCHANGED aiContextCache
        /\ pc' = [pc EXCEPT ![c] = "haveContext"]
        /\ trace' = [trace EXCEPT ![c] = @ \o <<"writeCache">>]
        /\ UNCHANGED outcome
     \/ /\ \E o \in { Thrown(adapter, PlainError(ReadErrorMsg), "fs.readFile", <<>>) } :
             Finish(c, o)
        /\ IF kind[c] = "generate"
           THEN /\ aiContextCache' = "rejected"
                /\ UNCHANGED modificationContextCache
           ELSE /\ modificationContextCache' = "rejected"
                /\ UNCHANGED aiContextCache
  /\ UNCHANGED <<text, phase, res, adapter, kind, tmpl, response>>

\* fs.readFile settles: the content is stored in the cache, or the rejection
\* propagates to the catch block of the call
ReadSettles(c) ==
  /\ pc[c] = "awaitRead"
  /\ \/ /\ IF kind[c] = "generate"
           THEN /\ aiContextCache' = FileContent
                /\ UNCHANGED modificationContextCache
           ELSE /\ modificationContextCache' = FileContent
                /\ UNCHANGED aiContextCache
        /\ pc' = [pc EXCEPT ![c] = "haveContext"]
        /\ trace' = [trace EXCEPT ![c] = @ \o <<"writeCache">>]
        /\ UNCHANGED outcome
     \/ /\ \E o \in { Thrown(adapter, PlainError(ReadErrorMsg), "fs.readFile", <<>>) } :
             Finish(c, o)
        /\ UNCHANGED <<aiContextCache, modificationContextCache>>
  /\ UNCHANGED <<text, phase, res, adapter, kind, tmpl, response>>

\* the prompts are built and adapter.generateContent is called; a template
\* without sections makes buildUserPrompt / buildModificationPrompt throw
BuildAndCall(c) ==
  /\ pc[c] = "haveContext"
  /\ IF tmpl[c] = "noSections"
     THEN \E o \in { Thrown(adapter, PlainError(SectionsErrorMsg), "buildPrompt",
                             <<"buildPrompt">>) } :
            Finish(c, o)
     ELSE /\ pc' = [pc EXCEPT ![c] = "awaitAdapter"]
          /\ trace' = [trace EXCEPT ![c] = @ \o <<"buildPrompt", "adapter.generateContent">>]
          /\ UNCHANGED outcome
  /\ UNCHANGED <<text, phase, res, adapter, aiContextCache,
                 modificationContextCache, kind, tmpl, response>>

\* AdapterResolves that processes the response another call has received,
\* when there is one (the response kept in a field of the processor)
AdapterResolvesShared(c) ==
  /\ pc[c] = "awaitAdapter"
  /\ \E r \in ResponsesOf(c) :
       /\ response' = [response EXCEPT ![c] = r]
       /\ \E o \in { ProcessResponse(adapter, kind[c],
                                      IF \E d \in Calls \ {c} : response[d] # NoResponse
                                      THEN response[CHOOSE d \in Calls \ {c} :
                                                      response[d] # NoResponse]
                                      ELSE r) } :
            Finish(c, o)
  /\ UNCHANGED <<text, phase, res, adapter, aiContextCache,
                 modificationContextCache, kind, tmpl>>

\* adapter.generateContent resolves and the rest of the call runs
AdapterResolves(c) ==
  /\ pc[c] = "awaitAdapter"
  /\ \E r \in ResponsesOf(c) :
       /\ response' = [response EXCEPT ![c] = r]
       /\ \E o \in { ProcessResponse(adapter, kind[c], r) } : Finish(c, o)
  /\ UNCHANGED <<text, phase, res, adapter, aiContextCache,
                 modificationContextCache, kind, tmpl>>

\* adapter.generateContent rejects
AdapterRejects(c) ==
  /\ pc[c] = "awaitAdapter"
  /\ \E e \in ErrorsOf(c) :
       \E o \in { Thrown(adapter, e, "adapter.generateContent", <<>>) } :
         Finish(c, o)
  /\ UNCHANGED <<text, phase, res, adapter, aiContextCache,
                 modificationContextCache, kind, tmpl, response>>

Next ==
  /\ \E c \in Calls :
       \/ StartCall(c)
       \/ ReadSettles(c)
       \/ BuildAndCall(c)
       \/ AdapterResolves(c)
       \/ AdapterRejects(c)
  /\ UNCHANGED <<keyVars, mwVars>>

Spec == Init /\ [][Next]_vars

----------------------------------------------------------------------------
(* The parser harness: parseJSON applied to one candidate text *)

InitParse ==
  /\ adapter \in Adapters
  /\ ProcIdle
  /\ KeyIdle
  /\ MwIdle
  /\ text \in Inputs
  /\ phase = "input"
  /\ res = NoRes

DoParseJSON ==
  /\ phase = "input"
  /\ phase' = "parsed"
  /\ res' = parseJSON(text, adapter)
  /\ UNCHANGED <<text, procVars, keyVars, mwVars>>

NextParse == DoParseJSON

SpecParse == InitParse /\ [][NextParse]_vars

----------------------------------------------------------------------------
(* The cleanResponse harness: cleanResponse applied to one raw text *)

\* length of the raw texts that are enumerated exhaustively, and of the
\* texts put between an opening and a closing fence
MaxRaw == 4
MaxFenced == 3

RawAlphabet == {TICK, SP, LF, "a", JSONWORD}

FenceOpeners ==
  { <<TICK, TICK, TICK>>, <<TICK, TICK, TICK, JSONWORD>>,
    <<TICK, TICK, TICK, JSONWORD, LF>>, <<TICK, TICK, TICK, LF>> }

FenceClosers ==
  { <<>>, <<TICK, TICK, TICK>>, <<LF, TICK, TICK, TICK>>, <<TICK, TICK, TICK, LF>> }

RawTexts ==
  SeqsUpTo(RawAlphabet, MaxRaw)
  \cup { o \o m \o c : o \in FenceOpeners, m \in SeqsUpTo(RawAlphabet, MaxFenced),
                      c \in FenceClosers }
  \cup { <<REFUSAL1>>, <<SP, "a", REFUSAL2>> }

InitClean ==
  /\ adapter = "openrouter"
  /\ ProcIdle
  /\ KeyIdle
  /\ MwIdle
  /\ text \in RawTexts
  /\ phase = "raw"
  /\ res = NoRes

DoCleanResponse ==
  /\ phase = "raw"
  /\ phase' = "cleaned"
  /\ res' = cleanResponse(text)
  /\ UNCHANGED <<text, procVars, keyVars, mwVars>>

NextClean == DoCleanResponse

SpecClean == InitClean /\ [][NextClean]_vars

----------------------------------------------------------------------------
(* The prompt builders.  A prompt is a sequence of lines and a line a        *)
(* sequence of characters; a block of fixed text is one line holding its    *)
(* first words.  A builder answers threw with the message of the TypeError, *)
(* or the prompt.                                                           *)

\* messageHistory.slice(-5) and content.substring(0, 300)
HISTORY_WINDOW == 5
CONTENT_LIMIT == 300

\* the longest message history handed to buildModificationPrompt
MaxHistory == 6

Built(p) == [threw |-> FALSE, message |-> <<>>, prompt |-> p]
BuildThrew(m) == [threw |-> TRUE, message |-> m, prompt |-> <<>>]

ChartAreaErrorMsg == <<"Cannot read properties of undefined (reading width)">>
ChartStateErrorMsg == <<"Cannot read properties of null (reading chartData)">>
HistoryErrorMsg == <<"Cannot read properties of null (reading slice)">>

\* a template section; note "" is a section without note
Section(name, type, contentType, note) ==
  [name |-> name, type |-> type, contentType |-> contentType, note |-> note]

\* templateStructure: null, or an object with or without sections and chartArea
NoTemplate ==
  [isNull |-> TRUE, hasSections |-> FALSE, sections |-> <<>>, hasChartArea |-> FALSE]
Template(hasSections, sections, hasChartArea) ==
  [isNull |-> FALSE, hasSections |-> hasSections, sections |-> sections,
   hasChartArea |-> hasChartArea]

\* templateStructure.sections?.some(s => s.contentType === 'html')
hasHtmlSections(ts) ==
  ts.hasSections /\ \E i \in DOMAIN ts.sections : ts.sections[i].contentType = "html"

buildSystemPrompt(aiContext, templateStructure) ==
  Built(<< <<aiContext>>, <<"You are an expert chart data generator.">> >>
        \o (IF templateStructure.isNull THEN <<>>
            ELSE << <<"IMPORTANT: The user has selected a template layout.">> >>
                 \o (IF hasHtmlSections(templateStructure)
                     THEN << <<"Some sections require HTML formatted content.">> >>
                     ELSE <<>>)))

IsTextArea(s) == s.type # "chart"
HasNote(s) == s.type # "chart" /\ s.note # ""

\* one line per element of ss, made by Line
MapLines(ss, Line(_)) == [i \in 1..Len(ss) |-> Line(ss[i])]

\* the line of a section in sectionsInfo, with its note when it has one
sectionInfo(s) ==
  <<"- ", s.name, " (", s.type, "): Generate ",
    IF s.contentType = "html" THEN "HTML formatted" ELSE "plain text", " content">>
  \o (IF s.note # "" THEN <<LF, "  USER NOTE: ", s.note>> ELSE <<>>)

buildUserPrompt(inputText, templateStructure) ==
  LET head == << <<"User request: ", inputText>>,
                 <<"Please generate chart data in valid JSON format.">> >>
  IN
  IF templateStructure.isNull THEN Built(head)
  ELSE IF ~templateStructure.hasSections THEN BuildThrew(SectionsErrorMsg)
  ELSE
  LET sections == templateStructure.sections
      textSections ==
        SelectSeq(sections, LAMBDA s : s.type # "chart" /\ s.contentType # "html")
      htmlSections ==
        SelectSeq(sections, LAMBDA s : s.type # "chart" /\ s.contentType = "html")
      sectionsInfo == MapLines(SelectSeq(sections, IsTextArea), sectionInfo)
      sectionsWithNotes == SelectSeq(sections, HasNote)
  IN
  IF ~templateStructure.hasChartArea THEN BuildThrew(ChartAreaErrorMsg)
  ELSE
  Built(head
        \o << <<"Template Structure:">>, <<"- Text Sections to populate:">> >>
        \o sectionsInfo
        \o << <<"Your response MUST include a templateContent object">> >>
        \o (IF Len(sectionsWithNotes) > 0
            THEN << <<"IMPORTANT - User-Specified Instructions:">> >>
                 \o MapLines(sectionsWithNotes,
                             LAMBDA s : <<"- ", s.name, ": ", s.note>>)
            ELSE <<>>)
        \o (IF Len(htmlSections) > 0
            THEN << <<"HTML FORMAT REQUIRED for these sections: ">> >> ELSE <<>>)
        \o (IF Len(textSections) > 0
            THEN << <<"PLAIN TEXT FORMAT for these sections: ">> >> ELSE <<>>)
        \o << <<"Response format for templateContent:">> >>)

\* a chart state: absent, or an object with or without chartData
NoChartState ==
  [present |-> FALSE, hasChartData |-> FALSE, labels |-> <<>>, datasets |-> <<>>,
   title |-> ""]
ChartState(hasChartData, labels, datasets, title) ==
  [present |-> TRUE, hasChartData |-> hasChartData, labels |-> labels,
   datasets |-> datasets, title |-> title]

\* labels.join(', ')
RECURSIVE JoinComma(_)
JoinComma(ls) ==
  IF ls = <<>> THEN <<>>
  ELSE IF Len(ls) = 1 THEN <<ls[1]>>
  ELSE <<ls[1], ", ">> \o JoinComma(Tail(ls))

\* one line: the summary of the chart state
buildChartSummary(chartState) ==
  IF ~chartState.present \/ ~chartState.hasChartData
  THEN <<"No chart currently exists.">>
  ELSE
    LET labels == chartState.labels
        datasets == chartState.datasets
    IN <<"Current chart is a ", "bar", " chart">>
       \o (IF Len(labels) > 0
           THEN <<" with ", ToString(Len(labels)), " data points">>
                \o (IF Len(labels) <= 5
                    THEN <<" (labels: ">> \o JoinComma(labels) \o <<")">>
                    ELSE <<" (labels: ">> \o JoinComma(SubSeq(labels, 1, 3))
                         \o <<"... and ", ToString(Len(labels) - 3), " more)">>)
           ELSE <<>>)
       \o (IF Len(datasets) > 0
           THEN <<". It has ", ToString(Len(datasets)), " dataset(s): ">>
                \o JoinComma(MapLines(datasets,
                                      LAMBDA ds : IF ds = "" THEN "Untitled" ELSE ds))
           ELSE <<>>)
       \o (IF chartState.title # "" THEN <<". Chart title: ", chartState.title>>
           ELSE <<>>)

\* a message of the history; hasContent FALSE is a message without content
Message(role, hasContent, content) ==
  [role |-> role, hasContent |-> hasContent, content |-> content]

\* the line of a message that keeps the whole content
historyLineWhole(msg) ==
  <<msg.role, ":", " ">>
  \o (IF ~msg.hasContent THEN <<"undefined">> ELSE msg.content)

\* the callback of map: role, ": " and the content, cut after 300 characters
historyLine(msg) ==
  <<msg.role, ":", " ">>
  \o (IF ~msg.hasContent THEN <<"undefined">>
      ELSE IF Len(msg.content) > CONTENT_LIMIT
      THEN Substring(msg.content, 0, CONTENT_LIMIT) \o <<".", ".", ".">>
      ELSE msg.content)

\* the lines of the first five messages instead of the last five
recentHistoryOldest(messages) ==
  MapLines(SubSeq(messages, 1,
                  IF Len(messages) < HISTORY_WINDOW THEN Len(messages)
                  ELSE HISTORY_WINDOW),
           historyLine)

\* messageHistory.slice(-5).map(...): the lines that join('\n') puts together
recentHistory(messages) ==
  MapLines(SubSeq(messages,
                  IF Len(messages) > HISTORY_WINDOW
                  THEN Len(messages) - HISTORY_WINDOW + 1 ELSE 1,
                  Len(messages)),
           historyLine)

HistoryHeading == <<"CONVERSATION HISTORY (last 5 messages):">>
RequestHeading == "USER'S CURRENT REQUEST: "

\* messageHistory is null, or an array of messages
NullHistory == [isNull |-> TRUE, messages |-> <<>>]
History(messages) == [isNull |-> FALSE, messages |-> messages]

buildModificationPrompt(modificationContext, currentChartState, messageHistory, inputText, templateStructure) ==
  IF messageHistory.isNull THEN BuildThrew(HistoryErrorMsg)
  ELSE IF ~currentChartState.present THEN BuildThrew(ChartStateErrorMsg)
  ELSE
  LET lines == recentHistory(messageHistory.messages)
      body ==
        << <<modificationContext>>,
           <<"CURRENT CHART SUMMARY (for your understanding):">>,
           buildChartSummary(currentChartState),
           <<"CURRENT CHART STATE (exact data):">>,
           <<"- Data: ",
             IF currentChartState.hasChartData THEN "compactData" ELSE "undefined">>,
           HistoryHeading >>
        \o (IF lines = <<>> THEN << <<>> >> ELSE lines)
        \o << <<>>, <<RequestHeading, inputText>>,
              <<"IMPORTANT INSTRUCTIONS:">>,
              <<"Respond with ONLY a JSON object:">> >>
        \o (IF ~templateStructure.isNull
            THEN << <<"  templateContent: { /* updated text/HTML */ }">> >>
            ELSE <<>>)
  IN
  IF templateStructure.isNull
  THEN Built(body \o << <<"NOTE: No template is active.">> >>)
  ELSE IF ~templateStructure.hasSections THEN BuildThrew(SectionsErrorMsg)
  ELSE
  LET textAreas == SelectSeq(templateStructure.sections, IsTextArea)
      sectionsWithNotes == SelectSeq(textAreas, HasNote)
  IN Built(body
           \o << <<"=== TEMPLATE IS ACTIVE ===">>,
                 <<"Available text areas you can modify:">> >>
           \o MapLines(textAreas,
                       LAMBDA s : <<"- ", s.type, " (", s.name, "): expects ",
                                    IF s.contentType = "html" THEN "HTML"
                                    ELSE "plain text">>)
           \o (IF Len(sectionsWithNotes) > 0
               THEN << <<"User instructions for specific areas:">> >>
                    \o MapLines(sectionsWithNotes,
                                LAMBDA s : <<"- ", s.name, ": ", s.note>>)
               ELSE <<>>)
           \o << <<"REMEMBER: main text area = templateContent.main">> >>)

----------------------------------------------------------------------------
(* The prompt harness: one prompt builder applied to one set of arguments *)

SectionLists ==
  { <<>>,
    <<Section("Chart", "chart", "text", "")>>,
    <<Section("Title", "title", "text", ""), Section("Main", "main", "html", "")>>,
    <<Section("Chart", "chart", "text", ""),
      Section("Heading", "heading", "text", "keep it short")>> }

TemplateStructures ==
  { NoTemplate }
  \cup { Template(TRUE, ss, TRUE) : ss \in SectionLists }
  \cup { Template(FALSE, <<>>, TRUE), Template(TRUE, <<>>, FALSE),
         Template(TRUE, <<Section("Main", "main", "html", "")>>, FALSE) }

ChartStates ==
  { NoChartState,
    ChartState(FALSE, <<>>, <<>>, ""),
    ChartState(TRUE, <<>>, <<>>, ""),
    ChartState(TRUE, <<"Q1", "Q2">>, <<"Sales">>, "Revenue"),
    ChartState(TRUE, <<"a", "b", "c", "d", "e", "f">>, <<"", "Costs">>, "") }

\* a short message, one of exactly 300 characters, one of 301, one without
\* content
Messages ==
  { Message("user", TRUE, <<"a">>),
    Message("assistant", TRUE, Repeat("b", CONTENT_LIMIT)),
    Message("user", TRUE, Repeat("c", CONTENT_LIMIT + 1)),
    Message("assistant", FALSE, <<>>) }

Histories == { History(ms) : ms \in SeqsUpTo(Messages, MaxHistory) }

PromptArgs ==
  { [fn |-> f, templateStructure |-> ts, currentChartState |-> NoChartState,
     messageHistory |-> History(<<>>)] :
      f \in {"buildSystemPrompt", "buildUserPrompt"}, ts \in TemplateStructures }
  \cup { [fn |-> "buildModificationPrompt", templateStructure |-> ts,
          currentChartState |-> cs, messageHistory |-> h] :
          ts \in TemplateStructures, cs \in ChartStates,
          h \in {NullHistory, History(<<>>)} }
  \cup { [fn |-> "buildModificationPrompt", templateStructure |-> NoTemplate,
          currentChartState |-> ChartState(TRUE, <<>>, <<>>, ""),
          messageHistory |-> h] : h \in Histories }

InitPrompt ==
  /\ adapter = "openrouter"
  /\ ProcIdle
  /\ KeyIdle
  /\ MwIdle
  /\ text \in PromptArgs
  /\ phase = "args"
  /\ res = NoRes

DoBuildPrompt ==
  /\ phase = "args"
  /\ phase' = "built"
  /\ res' = CASE text.fn = "buildSystemPrompt" ->
                  buildSystemPrompt(FileContent, text.templateStructure)
             [] text.fn = "buildUserPrompt" ->
                  buildUserPrompt("inputText", text.templateStructure)
             [] text.fn = "buildModificationPrompt" ->
                  buildModificationPrompt(FileContent, text.currentChartState,
                                          text.messageHistory, "inputText",
                                          text.templateStructure)
  /\ UNCHANGED <<text, procVars, keyVars, mwVars>>

NextPrompt == DoBuildPrompt

SpecPrompt == InitPrompt /\ [][NextPrompt]_vars

----------------------------------------------------------------------------
(* validateApiKey: ChartProcessor.validateApiKey awaits the adapter's      *)
(* validateApiKey, which makes one test call to the vendor.  An outcome is *)
(* status "returned" with a value, or status "threw".                      *)

\* an adapter handed to the constructor whose validateApiKey has no catch
StubAdapter == "stub"

KeyReturned(v) == [status |-> "returned", value |-> v]
KeyThrew == [status |-> "threw", value |-> FALSE]

\* what the vendor's test call may do: reject, resolve to undefined, or
\* resolve to a response that lacks choices, has no choice, has a choice
\* without message, has null or empty content, or has content; for Google
\* response.text() may throw
OpenAIAnswers ==
  {"rejects", "undefined", "noChoices", "emptyChoices", "noMessage",
   "nullContent", "emptyContent", "content"}
GoogleAnswers == {"rejects", "undefined", "textThrows", "emptyContent", "content"}
StubAnswers == {"rejects", "emptyContent", "content"}

AnswersOf(a) ==
  CASE a \in {"openrouter", "perplexity"} -> OpenAIAnswers
    [] a = "google" -> GoogleAnswers
    [] OTHER -> StubAnswers

\* the try block from the answer of the vendor on:
\* !!response.choices?.[0]?.message?.content, or !!response.text()
TestCallBody(a, ans) ==
  IF ans \in {"rejects", "undefined", "textThrows"} THEN KeyThrew
  ELSE KeyReturned(ans = "content")

\* the adapter's validateApiKey without its catch block
AfterTestCallNoCatch(a, ans) == TestCallBody(a, ans)

\* catch (error) { console.error(...); return false }
AfterTestCall(a, ans) ==
  IF a = StubAdapter THEN TestCallBody(a, ans)
  ELSE IF TestCallBody(a, ans).status = "threw" THEN KeyReturned(FALSE)
  ELSE TestCallBody(a, ans)

InitKey ==
  /\ adapter \in Adapters \cup {StubAdapter}
  /\ envKey \in BOOLEAN
  /\ vpc = [c \in Calls |-> "idle"]
  /\ vendorAnswer = [c \in Calls |-> "none"]
  /\ adapterValid = [c \in Calls |-> NotCalled]
  /\ valid = [c \in Calls |-> NotCalled]
  /\ ProcIdle
  /\ MwIdle
  /\ text = <<>>
  /\ phase = "unused"
  /\ res = NoRes

\* ChartProcessor.validateApiKey calls adapter.validateApiKey, which returns
\* false without a test call when the key is not set
ValidateStart(c) ==
  /\ vpc[c] = "idle"
  /\ IF adapter \in Adapters /\ ~envKey
     THEN /\ adapterValid' = [adapterValid EXCEPT ![c] = KeyReturned(FALSE)]
          /\ vpc' = [vpc EXCEPT ![c] = "awaitAdapter"]
     ELSE /\ vpc' = [vpc EXCEPT ![c] = "awaitVendor"]
          /\ UNCHANGED adapterValid
  /\ UNCHANGED <<envKey, vendorAnswer, valid>>

\* the test call settles and the adapter's validateApiKey ends
VendorSettles(c) ==
  /\ vpc[c] = "awaitVendor"
  /\ \E ans \in AnswersOf(adapter) :
       /\ vendorAnswer' = [vendorAnswer EXCEPT ![c] = ans]
       /\ adapterValid' = [adapterValid EXCEPT ![c] = AfterTestCall(adapter, ans)]
  /\ vpc' = [vpc EXCEPT ![c] = "awaitAdapter"]
  /\ UNCHANGED <<envKey, valid>>

\* return await this.adapter.validateApiKey(), or false from the catch block
ValidateReturns(c) ==
  /\ vpc[c] = "awaitAdapter"
  /\ valid' = [valid EXCEPT ![c] =
                 IF adapterValid[c].status = "threw" THEN KeyReturned(FALSE)
                 ELSE adapterValid[c]]
  /\ vpc' = [vpc EXCEPT ![c] = "done"]
  /\ UNCHANGED <<envKey, vendorAnswer, adapterValid>>

NextKey ==
  /\ \E c \in Calls :
       \/ ValidateStart(c)
       \/ VendorSettles(c)
       \/ ValidateReturns(c)
  /\ UNCHANGED <<parseVars, procVars, mwVars>>

SpecKey == InitKey /\ [][NextKey]_vars

----------------------------------------------------------------------------
(* authMiddleware.js: rateLimitMiddleware, requireAuth, blockIP, unblockIP *)
(* and the cleanup timer.  Time is counted in units of five minutes.       *)

\* 15 minutes, 30 minutes and 5 minutes
RATE_LIMIT_WINDOW == 3
BLOCK_DURATION == 6
AUTH_CACHE_TTL_MS == 1

\* the requests of one address accepted per window (100 in the source)
MAX_REQUESTS_PER_WINDOW == 2
\* the last instant of the clock, for the rate limiter and for requireAuth
MaxTime == 7
MaxAuthTime == 3
\* the requests the rate limiter and requireAuth receive
MaxRequests == 5
MaxAuthRequests == 3
\* the calls of blockIP and unblockIP
MaxAdminCalls == 1
\* the requireAuth calls that may be suspended at once
MaxInflight == 1

\* requests.filter(timestamp => timestamp > windowStart)
RECURSIVE FilterWindow(_, _)
FilterWindow(requests, windowStart) ==
  IF requests = <<>> THEN <<>>
  ELSE (IF Head(requests) > windowStart THEN <<Head(requests)>> ELSE <<>>)
       \o FilterWindow(Tail(requests), windowStart)

\* rateLimitMiddleware in which a request during the temporary block
\* renews the block
rateLimitRenewsBlock(clientIP, t, blocked, suspicious, store) ==
  IF clientIP \in blocked
  THEN [result |-> "403", suspicious |-> suspicious, store |-> store]
  ELSE IF suspicious[clientIP] # NoEntry /\ t < suspicious[clientIP]
  THEN [result |-> "429",
        suspicious |-> [suspicious EXCEPT ![clientIP] = t + BLOCK_DURATION],
        store |-> store]
  ELSE
    LET validRequests == FilterWindow(store[clientIP], t - RATE_LIMIT_WINDOW) IN
    IF Len(validRequests) >= MAX_REQUESTS_PER_WINDOW
    THEN [result |-> "429",
          suspicious |-> [suspicious EXCEPT ![clientIP] = t + BLOCK_DURATION],
          store |-> [store EXCEPT ![clientIP] = validRequests]]
    ELSE [result |-> "next", suspicious |-> suspicious,
          store |-> [store EXCEPT ![clientIP] = Append(validRequests, t)]]

\* rateLimitMiddleware: the answer ("next" when the request is passed on)
\* and the two maps after the call
rateLimit(clientIP, t, blocked, suspicious, store) ==
  IF clientIP \in blocked
  THEN [result |-> "403", suspicious |-> suspicious, store |-> store]
  ELSE IF suspicious[clientIP] # NoEntry /\ t < suspicious[clientIP]
  THEN [result |-> "429", suspicious |-> suspicious, store |-> store]
  ELSE
    LET validRequests == FilterWindow(store[clientIP], t - RATE_LIMIT_WINDOW) IN
    IF Len(validRequests) >= MAX_REQUESTS_PER_WINDOW
    THEN [result |-> "429",
          suspicious |-> [suspicious EXCEPT ![clientIP] = t + BLOCK_DURATION],
          store |-> [store EXCEPT ![clientIP] = validRequests]]
    ELSE [result |-> "next", suspicious |-> suspicious,
          store |-> [store EXCEPT ![clientIP] = Append(validRequests, t)]]

RateLimitRequest(ip) ==
  /\ quota.rate[ip] > 0
  /\ quota' = [quota EXCEPT !.rate[ip] = @ - 1]
  /\ \E r \in { rateLimit(ip, now, BLOCKED_IPS, SUSPICIOUS_IPS, rateLimitStore) } :
       /\ SUSPICIOUS_IPS' = r.suspicious
       /\ rateLimitStore' = r.store
       /\ log' = Append(log, [ip |-> ip, at |-> now, result |-> r.result,
                              blocked |-> ip \in BLOCKED_IPS])
  /\ UNCHANGED <<now, BLOCKED_IPS, authCache, inflight, authDone, oauthSessions>>

\* the setInterval callback: expired timestamps and expired blocks are dropped
\* (an address without timestamps has no entry: its list is empty)
Cleanup ==
  /\ rateLimitStore' =
       [ip \in IPs |-> FilterWindow(rateLimitStore[ip], now - RATE_LIMIT_WINDOW)]
  /\ SUSPICIOUS_IPS' =
       [ip \in IPs |-> IF SUSPICIOUS_IPS[ip] # NoEntry /\ now > SUSPICIOUS_IPS[ip]
                       THEN NoEntry ELSE SUSPICIOUS_IPS[ip]]
  /\ \/ rateLimitStore' # rateLimitStore
     \/ SUSPICIOUS_IPS' # SUSPICIOUS_IPS
  /\ UNCHANGED <<now, BLOCKED_IPS, authCache, inflight, log, authDone, quota,
                 oauthSessions>>

blockIP(ipAddress) ==
  /\ quota.admin > 0
  /\ quota' = [quota EXCEPT !.admin = @ - 1]
  /\ ipAddress \notin BLOCKED_IPS
  /\ BLOCKED_IPS' = BLOCKED_IPS \cup {ipAddress}
  /\ UNCHANGED <<now, SUSPICIOUS_IPS, rateLimitStore, authCache, inflight, log,
                 authDone, oauthSessions>>

unblockIP(ipAddress) ==
  /\ quota.admin > 0
  /\ quota' = [quota EXCEPT !.admin = @ - 1]
  /\ ipAddress \in BLOCKED_IPS
  /\ BLOCKED_IPS' = BLOCKED_IPS \ {ipAddress}
  /\ UNCHANGED <<now, SUSPICIOUS_IPS, rateLimitStore, authCache, inflight, log,
                 authDone, oauthSessions>>

Tick ==
  /\ quota.ticks > 0
  /\ quota' = [quota EXCEPT !.ticks = @ - 1]
  /\ now' = now + 1
  /\ UNCHANGED <<BLOCKED_IPS, SUSPICIOUS_IPS, rateLimitStore, authCache,
                 inflight, log, authDone, oauthSessions>>

\* getCachedUser: the entry counts until Date.now() > expiresAt
CacheHit(token) == authCache[token] # NoEntry /\ now <= authCache[token]

\* the token was signed out before the request arrived
Revoked(token) == token # NoToken /\ oauthSessions[token] = "deleted"

Answer(ip, token, result, cached, revoked) ==
  [ip |-> ip, token |-> token, result |-> result,
   blocked |-> ip \in BLOCKED_IPS, cached |-> cached, revoked |-> revoked]

\* requireAuth up to the await of the token validation
AuthStart(ip, token) ==
  /\ quota.auth > 0
  /\ quota' = [quota EXCEPT !.auth = @ - 1]
  /\ IF token = NoToken
     THEN /\ authDone' = Answer(ip, token, "401", FALSE, FALSE)
          /\ UNCHANGED <<authCache, inflight>>
     ELSE IF CacheHit(token)
     THEN /\ authDone' = Answer(ip, token, "next", TRUE, Revoked(token))
          /\ UNCHANGED <<authCache, inflight>>
     ELSE /\ authCache' = [authCache EXCEPT ![token] = NoEntry]
          /\ IF ip \in BLOCKED_IPS
             THEN /\ authDone' = Answer(ip, token, "403", FALSE, Revoked(token))
                  /\ UNCHANGED inflight
             ELSE /\ Cardinality(inflight) < MaxInflight
                  /\ inflight' = inflight \cup {[ip |-> ip, token |-> token,
                                                 revoked |-> Revoked(token)]}
                  /\ UNCHANGED authDone
  /\ UNCHANGED <<now, BLOCKED_IPS, SUSPICIOUS_IPS, rateLimitStore, log,
                 oauthSessions>>

\* the validation settles.  A token without OAuth session is a token of
\* Supabase, which accepts or rejects it; for a token of an OAuth session
\* the fetch fails and validateSession finds the row, unless it was deleted
\* or has expired.  An accepted user is cached and the request passed on.
AuthSettle(req) ==
  /\ req \in inflight
  /\ inflight' = inflight \ {req}
  /\ \/ /\ oauthSessions[req.token] \in {"none", "live"}
        /\ authCache' = [authCache EXCEPT ![req.token] = now + AUTH_CACHE_TTL_MS]
        /\ authDone' = Answer(req.ip, req.token, "next", FALSE, req.revoked)
     \/ /\ authDone' = Answer(req.ip, req.token, "401", FALSE, req.revoked)
        /\ UNCHANGED authCache
  /\ UNCHANGED <<now, BLOCKED_IPS, SUSPICIOUS_IPS, rateLimitStore, log, quota,
                 oauthSessions>>

\* signOut up to its second await: deleteSession has deleted the row of the
\* token (a signOut that finds no row changes nothing)
SignOutDeletes(token) ==
  /\ oauthSessions[token] = "live"
  /\ oauthSessions' = [oauthSessions EXCEPT ![token] = "signingOut"]
  /\ UNCHANGED <<now, BLOCKED_IPS, SUSPICIOUS_IPS, rateLimitStore, authCache,
                 inflight, log, authDone, quota>>

\* signOut clears the cookies and answers
SignOutCompletes(token) ==
  /\ oauthSessions[token] = "signingOut"
  /\ oauthSessions' = [oauthSessions EXCEPT ![token] = "deleted"]
  /\ UNCHANGED <<now, BLOCKED_IPS, SUSPICIOUS_IPS, rateLimitStore, authCache,
                 inflight, log, authDone, quota>>

InitRate ==
  /\ MwLoaded
  /\ quota = [rate |-> RateQuota(MaxRequests, 1), auth |-> 0,
              admin |-> MaxAdminCalls, ticks |-> MaxTime]
  /\ oauthSessions = NoSessions
  /\ adapter = "openrouter" /\ ProcIdle /\ KeyIdle
  /\ text = <<>> /\ phase = "unused" /\ res = NoRes

NextRate ==
  /\ \/ \E ip \in IPs : RateLimitRequest(ip)
     \/ \E ip \in IPs : blockIP(ip)
     \/ Cleanup
     \/ Tick
  /\ UNCHANGED <<parseVars, procVars, keyVars>>

SpecRate == InitRate /\ [][NextRate]_vars

InitAuth ==
  /\ MwLoaded
  /\ quota = [rate |-> RateQuota(1, 0), auth |-> MaxAuthRequests,
              admin |-> MaxAdminCalls + 1, ticks |-> MaxAuthTime]
  /\ oauthSessions \in [Tokens -> {"none", "live"}]
  /\ adapter = "openrouter" /\ ProcIdle /\ KeyIdle
  /\ text = <<>> /\ phase = "unused" /\ res = NoRes

NextAuth ==
  /\ \/ \E ip \in IPs, token \in Tokens \cup {NoToken} : AuthStart(ip, token)
     \/ \E req \in inflight : AuthSettle(req)
     \/ \E token \in Tokens : SignOutDeletes(token)
     \/ \E token \in Tokens : SignOutCompletes(token)
     \/ \E ip \in IPs : RateLimitRequest(ip)
     \/ \E ip \in IPs : blockIP(ip)
     \/ \E ip \in IPs : unblockIP(ip)
     \/ Cleanup
     \/ Tick
  /\ UNCHANGED <<parseVars, procVars, keyVars>>

SpecAuth == InitAuth /\ [][NextAuth]_vars

----------------------------------------------------------------------------
(* Properties of parseJSON (checked under SpecParse) *)

Parsed == phase = "parsed"

\* C1: a text that is strictly valid JSON is returned as its strict-parse
\* value, and no repair stage is run on it
C1_ValidJsonIsParsedStrictly ==
  (Parsed /\ JSONparse(text).ok)
    => /\ res.ok
       /\ res.val = JSONparse(text).val
       /\ res.by = "strict"
       /\ res.stages = <<>>

C1_Witness ==
  Parsed /\ JSONparse(text).ok /\ res.ok /\ IsObj(res.val) /\ Len(text) > 8

\* the number of quoted strings of s that hold a literal newline
RECURSIVE RawNewlineStrings(_, _, _, _)
RawNewlineStrings(s, i, inStr, seen) ==
  IF i > Len(s) THEN 0
  ELSE IF ~inStr THEN RawNewlineStrings(s, i + 1, s[i] = QT, FALSE)
  ELSE IF s[i] = BS THEN RawNewlineStrings(s, i + 2, TRUE, seen)
  ELSE IF s[i] = QT
    THEN (IF seen THEN 1 ELSE 0) + RawNewlineStrings(s, i + 1, FALSE, FALSE)
  ELSE RawNewlineStrings(s, i + 1, TRUE, seen \/ s[i] = LF)

\* JSON.parse, were a literal newline an ordinary character of a string
ParseNewlineAllowed(s) == ParseWith(s, ControlChars \ {LF})

\* a well-formed object except that exactly one string holds a literal newline
OneNewlineString(s) ==
  /\ ~JSONparse(s).ok
  /\ ParseNewlineAllowed(s).ok
  /\ IsObj(ParseNewlineAllowed(s).val)
  /\ RawNewlineStrings(s, 1, FALSE, FALSE) = 1

\* C2: a well-formed object in which exactly one string holds a literal
\* newline is recovered by the control-character pass alone, and the value
\* holds the newline as an ordinary character of that string
C2_NewlineInStringIsRecovered ==
  (Parsed /\ OneNewlineString(text))
    => /\ res.ok
       /\ res.by = "fixHTMLInJSON"
       /\ res.stages = <<"fixHTMLInJSON">>
       /\ res.val = ParseNewlineAllowed(text).val

C2_Witness ==
  /\ Parsed /\ OneNewlineString(text) /\ res.ok
  /\ Len(res.val[2]) = 2
  /\ res.val[2][2][2] = <<"str", <<LF>>>>

\* C3 (as claimed): a well-formed object followed by any non-empty garbage
\* parses to the value of the object
C3_TrailingGarbageIsCut ==
  Parsed =>
    \A k \in 1..(Len(text) - 1) :
      (text[1] = LB /\ text[k] = RB /\ JSONparse(SubSeq(text, 1, k)).ok)
        => (res.ok /\ res.val = JSONparse(SubSeq(text, 1, k)).val)

\* C4 (as claimed): a well-formed object that lost its last one, two or
\* three closing brackets is recovered by bracket closure with the value of
\* the complete object
C4_MissingClosersAreAppended ==
  Parsed =>
    \A cs \in ClosingSeqs :
      (JSONparse(text \o cs).ok /\ IsObj(JSONparse(text \o cs).val))
        => /\ res.ok
           /\ res.by = "bracketClosure"
           /\ res.val = JSONparse(text \o cs).val

\* C5 (as claimed): a candidate text whose first character is not the
\* opening brace fails with the diagnosis "missing opening brace"
C5_NoOpeningBraceFails ==
  (Parsed /\ text # <<>> /\ Trim(text) = text /\ text[1] # LB)
    => (~res.ok /\ Includes(res.message, DiagNotJson))

\* the text bracket closure makes of t (empty when a counter is negative)
BracketClosureOf(t) ==
  LET r == fixHTMLInJSON(Trim(t))
      bc == BracketScan(r, 0, 0, 0, FALSE, FALSE)
  IN IF bc.arrayCount < 0 \/ bc.objectCount < 0 THEN <<>>
     ELSE CloseBrackets(r, bc.arrayCount, bc.objectCount)

\* C19 (as claimed): a stage whose output does not parse does not end the
\* repair: parseJSON fails only after all five stages were tried, and it
\* succeeds whenever bracket closure of the text gives valid JSON
C19_EveryStageIsTried ==
  Parsed =>
    /\ ~res.ok => res.stages = StageOrder
    /\ (~JSONparse(text).ok /\ JSONparse(BracketClosureOf(text)).ok) => res.ok

\* the stages of the repair with the rgba stage removed
RepairStagesNoRgba(repaired) ==
  IF JSONparse(repaired).ok THEN repaired
  ELSE
  LET sc == BraceScan(repaired, 0, 0, -1, FALSE, FALSE) IN
  IF sc.lastValidIndex > 0 /\ sc.lastValidIndex < Len(repaired) - 1
  THEN Substring(repaired, 0, sc.lastValidIndex + 1)
  ELSE
  LET lastOpenQuoteIndex == QuoteScan(repaired, 0, 0, -1) IN
  IF sc.inString /\ lastOpenQuoteIndex > -1
  THEN Substring(repaired, 0, lastOpenQuoteIndex + 1) \o StringClosing
  ELSE
  LET bc == BracketScan(repaired, 0, 0, 0, FALSE, FALSE) IN
  IF bc.arrayCount < 0 \/ bc.objectCount < 0 THEN <<>>
  ELSE CloseBrackets(repaired, bc.arrayCount, bc.objectCount)

\* what parseJSON recovers from a text that is not valid JSON when the
\* repair has no rgba stage
RecoveredWithoutRgba(t) ==
  The({ JSONparse(r) : r \in { RepairStagesNoRgba(fixHTMLInJSON(Trim(t))) } })

\* C20 (as claimed): the rgba stage never masks another repair: a text the
\* repair without the rgba stage recovers is recovered to the same value
C20_RgbaNeverMasksARepair ==
  (Parsed /\ ~JSONparse(text).ok /\ RecoveredWithoutRgba(text).ok)
    => (res.ok /\ res.val = RecoveredWithoutRgba(text).val)

\* the closers of the brackets that are open after the first n characters
\* of s, innermost first
RECURSIVE OpenClosers(_, _, _, _, _, _)
OpenClosers(s, i, n, stack, inString, escapeNext) ==
  IF i >= n THEN stack
  ELSE LET char == At(s, i) IN
    IF escapeNext THEN OpenClosers(s, i + 1, n, stack, inString, FALSE)
    ELSE IF char = BS THEN OpenClosers(s, i + 1, n, stack, inString, TRUE)
    ELSE IF char = QT THEN OpenClosers(s, i + 1, n, stack, ~inString, FALSE)
    ELSE IF ~inString /\ char = LB
      THEN OpenClosers(s, i + 1, n, <<RB>> \o stack, inString, FALSE)
    ELSE IF ~inString /\ char = LK
      THEN OpenClosers(s, i + 1, n, <<RK>> \o stack, inString, FALSE)
    ELSE IF ~inString /\ char \in {RB, RK} /\ stack # <<>>
      THEN OpenClosers(s, i + 1, n, Tail(stack), inString, FALSE)
    ELSE OpenClosers(s, i + 1, n, stack, inString, FALSE)

\* s cut after its last unmatched opening quote, the string closed and the
\* brackets open at that point closed
BalancedStringClosure(s) ==
  LET q == QuoteScan(s, 0, 0, -1)
  IN Substring(s, 0, q + 1) \o <<QT>> \o OpenClosers(s, 0, q, <<>>, FALSE, FALSE)

\* C21 (as claimed): the text the unterminated-string stage produces is the
\* text cut at the last unmatched opening quote, a closing quote and exactly
\* the closers of the brackets open at that point, and it passes strict parse
C21_StringClosureBalances ==
  (Parsed /\ res.stages = SubSeq(StageOrder, 1, 4))
    => /\ attemptJSONRepair(text).text =
            BalancedStringClosure(fixHTMLInJSON(Trim(text)))
       /\ res.ok

\* s with every literal newline, carriage return and tab inside a string
\* rewritten, also after a backslash
RECURSIVE EscapeEvery(_, _, _, _, _)
EscapeEvery(s, i, inString, escapeNext, fixed) ==
  IF i >= Len(s) THEN fixed
  ELSE LET char == At(s, i) IN
    IF inString /\ char \in ControlChars
      THEN EscapeEvery(s, i + 1, inString, FALSE,
                       fixed \o <<BS, CASE char = LF -> "n" [] char = CR -> "r"
                                        [] OTHER -> "t">>)
    ELSE IF escapeNext THEN EscapeEvery(s, i + 1, inString, FALSE, Append(fixed, char))
    ELSE IF char = BS THEN EscapeEvery(s, i + 1, inString, TRUE, Append(fixed, char))
    ELSE IF char = QT THEN EscapeEvery(s, i + 1, ~inString, FALSE, Append(fixed, char))
    ELSE EscapeEvery(s, i + 1, inString, FALSE, Append(fixed, char))

\* a literal newline, carriage return or tab stands inside a string of s
RECURSIVE RawControlInString(_, _, _)
RawControlInString(s, i, inString) ==
  IF i > Len(s) THEN FALSE
  ELSE IF inString /\ s[i] \in ControlChars THEN TRUE
  ELSE IF s[i] = BS
    THEN (inString /\ i + 1 <= Len(s) /\ s[i + 1] \in ControlChars)
         \/ RawControlInString(s, i + 2, inString)
  ELSE RawControlInString(s, i + 1, IF s[i] = QT THEN ~inString ELSE inString)

\* C22 (as claimed): fixHTMLInJSON rewrites every literal newline, carriage
\* return and tab inside a string, also one that follows a backslash, and
\* copies the rest: its output holds none of them inside a string
C22_EveryControlCharIsEscaped ==
  Parsed =>
    /\ fixHTMLInJSON(text) = EscapeEvery(text, 0, FALSE, FALSE, <<>>)
    /\ ~RawControlInString(fixHTMLInJSON(text), 1, FALSE)

\* out is a prefix of base followed by closing tokens and white space only
IsSalvageOf(base, out) ==
  \E n \in 0..Len(out) :
    /\ n <= Len(base)
    /\ SubSeq(out, 1, n) = SubSeq(base, 1, n)
    /\ \A i \in (n + 1)..Len(out) : out[i] \in {QT, RK, RB, SP, LF, CR, TAB}

\* C29: the text parseJSON parses after a repair is a prefix of the trimmed
\* input with its control characters escaped, followed by closing tokens and
\* white space only
C29_SalvageNeverFabricates ==
  (Parsed /\ ~JSONparse(text).ok)
    => \E r \in { attemptJSONRepair(text) } :
         /\ r.isNull \/ IsSalvageOf(fixHTMLInJSON(Trim(text)), r.text)
         /\ res.ok => res.parsed = r.text

C29_Witness ==
  /\ Parsed /\ res.ok /\ res.by = "rgbaClosure"
  /\ Len(fixHTMLInJSON(Trim(text))) > Len(text) - 2
  /\ \E n \in 1..(Len(text) - 1) :
       /\ SubSeq(res.parsed, 1, n) = SubSeq(text, 1, n)
       /\ Len(res.parsed) > Len(text)

----------------------------------------------------------------------------
(* Properties of generateChart / modifyChart (checked under Spec) *)

HasRefusal(s) == Includes(s, REFUSAL1) \/ Includes(s, REFUSAL2)

\* the adapter resolved in call c and the rest of the call has run
Answered(c) == pc[c] = "done" /\ Includes(trace[c], "cleanResponse")

Has(v, key) == Get(v, key)[1] # "undefined"

\* what parseJSON made of the response of call c
ParsedOf(c) ==
  LET cr == cleanResponse(response[c].content)
  IN IF cr.threw THEN NoRes ELSE parseJSON(cr.text, adapter)

C7_GenerateValidatesFields ==
  \A c \in Calls :
    (Answered(c) /\ kind[c] = "generate")
      => /\ outcome[c].status = "returned"
              => /\ ParsedOf(c).ok
                 /\ Has(ParsedOf(c).val, "chartType")
                 /\ Has(ParsedOf(c).val, "data") \/ Has(ParsedOf(c).val, "chartData")
         /\ (ParsedOf(c).ok /\ IsObj(ParsedOf(c).val)
               /\ ~Has(ParsedOf(c).val, "chartType"))
              => /\ outcome[c].status = "threw"
                 /\ Includes(outcome[c].message, "chartType")
                 /\ outcome[c].value = <<>>
                 /\ ~Includes(trace[c], "buildMetadata")

C7_Witness ==
  \E c \in Calls :
    /\ Answered(c) /\ kind[c] = "generate"
    /\ ParsedOf(c).ok /\ IsObj(ParsedOf(c).val)
    /\ ~Has(ParsedOf(c).val, "chartType")
    /\ ~Has(ParsedOf(c).val, "chartData")
    /\ outcome[c].status = "threw"

\* C8 (as claimed): a result returned by modifyChart has chartType and
\* chartData (or data)
C8_ModifyValidatesFields ==
  \A c \in Calls :
    (pc[c] = "done" /\ kind[c] = "modify" /\ outcome[c].status = "returned")
      => /\ Has(outcome[c].value, "chartType")
         /\ Has(outcome[c].value, "chartData") \/ Has(outcome[c].value, "data")

\* C9 (as claimed): every failure of the adapter call, the normalization,
\* the parse or the validation went through the enhanceError of the adapter
C9_AdapterEnhancesEveryError ==
  \A c \in Calls :
    (/\ pc[c] = "done" /\ outcome[c].status = "threw"
     /\ outcome[c].origin \in {"adapter.generateContent", "cleanResponse",
                               "parseJSON", "validation"})
      => Includes(trace[c], "adapter.enhanceError")

\* C10 (as claimed): an error thrown by generateContent is classified by its
\* status alone, and an error of any other status keeps its message
C10_ClassifiedByStatusAlone ==
  \A c \in Calls :
    (pc[c] = "done" /\ outcome[c].origin = "adapter.generateContent")
      => LET e == outcome[c].cause IN
         outcome[c].message =
           IF e.status = 401 THEN AuthMsg(adapter)
           ELSE IF e.status = 429 THEN RateLimitMsg(adapter)
           ELSE IF e.status >= 500 THEN ServerErrorMsg(adapter)
           ELSE <<UnknownPrefix(adapter)>> \o e.message

\* C11 (as claimed): when the response could not be parsed or repaired, the
\* error the caller receives carries the diagnosis parseJSON computed
C11_DiagnosisReachesCaller ==
  \A c \in Calls :
    (pc[c] = "done" /\ outcome[c].origin = "parseJSON")
      => Includes(outcome[c].message,
                  errorDetails(cleanResponse(response[c].content).text))

\* the number of occurrences of x in the sequence s
RECURSIVE Count(_, _)
Count(s, x) ==
  IF s = <<>> THEN 0 ELSE (IF Head(s) = x THEN 1 ELSE 0) + Count(Tail(s), x)

\* C12: in one generateChart / modifyChart call adapter.generateContent is
\* invoked at most once, whatever the outcome of the call
C12_GenerateContentAtMostOnce ==
  \A c \in Calls : Count(trace[c], "adapter.generateContent") <= 1

C12_Witness ==
  \E c \in Calls :
    /\ pc[c] = "done" /\ outcome[c].status = "threw"
    /\ outcome[c].origin = "parseJSON"
    /\ Count(trace[c], "adapter.generateContent") = 1

\* the calls of kind k that assigned the cache of their kind
CacheWriters(k) ==
  { c \in Calls : kind[c] = k /\ Includes(trace[c], "writeCache") }

\* C14 (as claimed): each context cache is assigned exactly once, by the
\* first read that completes, and a call that finds the cache filled does
\* not read the file
C14_CacheWrittenOnce ==
  /\ [](\A k \in Kinds : Cardinality(CacheWriters(k)) <= 1)
  /\ [][\A c \in Calls :
          (pc[c] = "idle" /\ pc'[c] = "awaitRead")
            => ContextCache(kind'[c]) = NullCache]_vars

\* C15: a result returned by generateChart has a non-empty user_message:
\* the non-empty one of the parsed response, unchanged, or else the default
\* that names the serviceName of the adapter
C15_UserMessageIsNeverEmpty ==
  \A c \in Calls :
    (Answered(c) /\ kind[c] = "generate" /\ outcome[c].status = "returned")
      => LET um == Get(outcome[c].value, "user_message")
             supplied == Get(ParsedOf(c).val, "user_message")
         IN /\ um[1] = "str" /\ um[2] # <<>>
            /\ IF supplied[1] = "str" /\ supplied[2] # <<>>
               THEN um = supplied
               ELSE um = <<"str", <<"Chart generated successfully using ", adapter>>>>

C15_Witness ==
  \E c \in Calls :
    /\ Answered(c) /\ kind[c] = "generate" /\ outcome[c].status = "returned"
    /\ Get(ParsedOf(c).val, "user_message") = <<"str", <<>>>>
    /\ Includes(Get(outcome[c].value, "user_message")[2], adapter)

\* the _metadata property of a returned value (an own property of an array)
MetadataOf(v) == IF v[1] = "obj" THEN Get(v, "_metadata") ELSE v[3][1][2]

\* C16: a result returned by generateChart or modifyChart carries the
\* _metadata built for the call: service is the serviceName of the adapter,
\* model the model argument, tokens_used the token count of the adapter or
\* null; a _metadata of the backend or a field of getAdditionalMetadata
\* does not replace them
C16_MetadataIsBuiltByProcessor ==
  \A c \in Calls :
    (Answered(c) /\ outcome[c].status = "returned")
      => LET m == MetadataOf(outcome[c].value) IN
         /\ m[1] = "obj"
         /\ Get(m, "service") = <<"str", <<adapter>>>>
         /\ Get(m, "model") = <<"str", <<ModelArg>>>>
         /\ Get(m, "timestamp") = <<"str", <<"new Date().toISOString()">>>>
         /\ Get(m, "tokens_used") =
              IF response[c].tokensUsed = <<>> THEN Null
              ELSE <<"num", response[c].tokensUsed>>

C16_Witness ==
  \E c \in Calls :
    /\ Answered(c) /\ outcome[c].status = "returned"
    /\ Has(ParsedOf(c).val, "_metadata")
    /\ Get(MetadataOf(outcome[c].value), "service") = <<"str", <<adapter>>>>

\* the response text is a well-formed JSON object with chartType and chartData
IsChartJson(content) ==
  \E v \in { JSONparse(Trim(content)) } :
    v.ok /\ IsObj(v.val) /\ Has(v.val, "chartType") /\ Has(v.val, "chartData")

\* C23 (as claimed): a response whose text is a well-formed JSON object with
\* chartType and chartData is never rejected as a refusal, also when one of
\* its string values holds a refusal phrase
C23_JsonIsNeverARefusal ==
  \A c \in Calls :
    (Answered(c) /\ IsChartJson(response[c].content))
      => ~(outcome[c].status = "threw" /\ outcome[c].cause.message = RefusalMsg)

\* what belongs to call c alone
OwnState(c) == <<pc[c], kind[c], tmpl[c], response[c], outcome[c], trace[c]>>

\* the outcome of a call that received resp, run on its own
AloneOutcome(k, resp) ==
  The({ [f \in DOMAIN Pending |-> o[f]] : o \in { ProcessResponse(adapter, k, resp) } })

C28_FailedLoadIsNotCached ==
  /\ [](\A k \in Kinds :
         /\ ContextCache(k) \in {NullCache, FileContent}
         /\ ContextCache(k) # NullCache => CacheWriters(k) # {})
  /\ [][\A c \in Calls :
          /\ (pc[c] = "awaitRead" /\ pc'[c] = "done")
               => /\ aiContextCache' = aiContextCache
                  /\ modificationContextCache' = modificationContextCache
                  /\ outcome'[c].status = "threw"
                  /\ outcome'[c].cause.message = ReadErrorMsg
                  /\ ~Includes(trace'[c], "adapter.generateContent")
          /\ (pc[c] = "idle" /\ pc'[c] # "idle"
                /\ ContextCache(kind'[c]) = NullCache)
               => pc'[c] = "awaitRead"
          /\ (pc[c] = "awaitRead" /\ pc'[c] = "haveContext")
               => ContextCache(kind[c])' = FileContent]_vars

C28_Witness ==
  \E c, d \in Calls :
    /\ c # d /\ kind[c] = kind[d]
    /\ pc[c] = "done" /\ outcome[c].origin = "fs.readFile"
    /\ ~Includes(trace[c], "adapter.generateContent")
    /\ Includes(trace[d], "writeCache") /\ outcome[d].status = "returned"
    /\ ContextCache(kind[d]) = FileContent

----------------------------------------------------------------------------
(* Properties of cleanResponse (checked under SpecClean) *)

Cleaned == phase = "cleaned"

\* C24 (as claimed): for a raw text that is not empty and holds no refusal
\* phrase, the candidate text neither begins nor ends with a grave accent or
\* a white space character, and cleanResponse maps it to itself
C24_CandidateIsStrippedAndStable ==
  (Cleaned /\ text # <<>> /\ ~HasRefusal(text))
    => /\ ~res.threw
       /\ res.text # <<>>
            => /\ res.text[1] # TICK /\ ~IsWs(res.text[1])
               /\ res.text[Len(res.text)] # TICK /\ ~IsWs(res.text[Len(res.text)])
       /\ cleanResponse(res.text) = res

----------------------------------------------------------------------------
(* Properties of the prompt builders (checked under SpecPrompt) *)

PromptBuilt == phase = "built"

\* C25 (as claimed): prompt construction never fails: each of the three
\* builders returns a prompt for every input, also for a template without
\* sections or chartArea, an absent chart state and a null history
C25_PromptConstructionNeverFails ==
  PromptBuilt => (~res.threw /\ res.prompt # <<>>)

\* the lines of the prompt between the heading of the history and the empty
\* line before the request (no line when the history part is empty)
HistoryLines(prompt) ==
  LET h == CHOOSE i \in DOMAIN prompt : prompt[i] = HistoryHeading
      r == CHOOSE i \in DOMAIN prompt :
             prompt[i] # <<>> /\ prompt[i][1] = RequestHeading
      ls == SubSeq(prompt, h + 1, r - 2)
  IN IF ls = << <<>> >> THEN <<>> ELSE ls

\* the part of a history line after the role and ": "
IncludedText(line) == SubSeq(line, 4, Len(line))

\* the messages a prompt for history ms has to show: the last min(5, n)
Shown(ms) ==
  SubSeq(ms, IF Len(ms) > 5 THEN Len(ms) - 4 ELSE 1, Len(ms))

\* the harness has built a modification prompt
ModificationBuilt ==
  PromptBuilt /\ text.fn = "buildModificationPrompt" /\ ~res.threw

\* C26 (as claimed): the modification prompt holds exactly the last
\* min(5, n) messages of the history, in their order, and the text included
\* for a message is at most 300 characters long
C26_HistoryWindowAndLimit ==
  ModificationBuilt =>
    LET ms == Shown(text.messageHistory.messages)
        ls == HistoryLines(res.prompt)
    IN /\ Len(ls) = Len(ms)
       /\ \A i \in DOMAIN ls :
            /\ ls[i][1] = ms[i].role
            /\ Len(IncludedText(ls[i])) <= 300
            /\ ms[i].hasContent
                 => IncludedText(ls[i]) =
                      SubSeq(ms[i].content, 1, Len(IncludedText(ls[i])))

\* C26 (amended): the modification prompt holds exactly the last min(5, n)
\* messages of the history, in their order; the text included for a message
\* is its content when that has at most 300 characters, and otherwise its
\* first 300 characters followed by "..." (303 characters)
C26_HistoryWindowAndEllipsis ==
  ModificationBuilt =>
    LET ms == Shown(text.messageHistory.messages)
        ls == HistoryLines(res.prompt)
    IN /\ Len(ls) = Len(ms)
       /\ \A i \in DOMAIN ls :
            /\ ls[i][1] = ms[i].role
            /\ Len(IncludedText(ls[i])) <= 303
            /\ ms[i].hasContent
                 => IncludedText(ls[i]) =
                      IF Len(ms[i].content) <= 300 THEN ms[i].content
                      ELSE SubSeq(ms[i].content, 1, 300) \o <<".", ".", ".">>

C26_Witness ==
  /\ ModificationBuilt
  /\ Len(text.messageHistory.messages) = 6
  /\ Len(HistoryLines(res.prompt)) = 5
  /\ Len(text.messageHistory.messages[1].content) = 1
  /\ Len(text.messageHistory.messages[2].content) = 301
  /\ Len(IncludedText(HistoryLines(res.prompt)[1])) = 303
  /\ Len(IncludedText(HistoryLines(res.prompt)[2])) = 300

----------------------------------------------------------------------------
(* Properties of validateApiKey (checked under SpecKey) *)

\* C13: validateApiKey never throws: the validateApiKey of the three
\* adapters and that of the processor end by returning a boolean, false for
\* every failure, and true only when the key is set and the test call
\* produced content
C13_ValidateApiKeyNeverThrows ==
  \A c \in Calls :
    /\ valid[c].status # "threw"
    /\ adapter \in Adapters => adapterValid[c].status # "threw"
    /\ vpc[c] = "done"
         => /\ valid[c].status = "returned"
            /\ valid[c].value \in BOOLEAN
            /\ valid[c].value = TRUE
                 => /\ vendorAnswer[c] = "content"
                    /\ adapter \in Adapters => envKey

C13_Witness ==
  \E c, d \in Calls :
    /\ vpc[c] = "done" /\ vendorAnswer[c] = "rejects"
    /\ adapter = "google" /\ valid[c] = KeyReturned(FALSE)
    /\ vpc[d] = "done" /\ valid[d] = KeyReturned(TRUE)

----------------------------------------------------------------------------
(* Properties of authMiddleware.js (checked under SpecAuth and SpecRate) *)

\* C17 (as claimed): a request from an address that is in the permanent
\* block list is passed on neither by rateLimitMiddleware nor by requireAuth
C17_BlockedAddressNeverPassed ==
  /\ authDone.result = "next" => ~authDone.blocked
  /\ \A i \in DOMAIN log : log[i].result = "next" => ~log[i].blocked

\* C30 (as claimed): after signOut has completed for a token, every later
\* request that presents the token to requireAuth is answered 401, also
\* while the token is still in the auth cache (a request from a permanently
\* blocked address, which is answered 403, is left aside)
C30_SignedOutTokenIsRejected ==
  (authDone.revoked /\ ~authDone.blocked) => authDone.result = "401"

\* the requests of address ip the rate limiter answered while ip was not
\* permanently blocked, in order
RECURSIVE RequestsOf(_, _)
RequestsOf(l, ip) ==
  IF l = <<>> THEN <<>>
  ELSE (IF Head(l).ip = ip /\ Head(l).result # "403" THEN <<Head(l)>> ELSE <<>>)
       \o RequestsOf(Tail(l), ip)

\* the requests before the i-th, or up to it, accepted in the window that
\* ends with the i-th
AcceptedInWindow(L, i, upTo) ==
  Cardinality({ j \in 1..upTo :
                  L[j].result = "next" /\ L[j].at > L[i].at - RATE_LIMIT_WINDOW })

\* the end of the latest block started before the i-th request: a block is
\* started by a rejected request that no earlier block covers
RECURSIVE BlockEnd(_, _)
BlockEnd(L, i) ==
  IF i = 1 THEN NoEntry
  ELSE IF L[i - 1].result = "429" /\ ~(L[i - 1].at < BlockEnd(L, i - 1))
  THEN L[i - 1].at + BLOCK_DURATION
  ELSE BlockEnd(L, i - 1)

InBlock(L, i) == L[i].at < BlockEnd(L, i)

\* C18: for every address (while it is not permanently blocked): at most
\* MAX_REQUESTS_PER_WINDOW requests are passed on within a window; the
\* request that finds that many accepted requests in the window is rejected
\* and starts a block of BLOCK_DURATION; during the block every request is
\* rejected, is not recorded and does not move the end of the block; the
\* first request after the block is accepted
C18_RateLimitAndTemporaryBlock ==
  \A ip \in IPs :
    LET L == RequestsOf(log, ip) IN
    /\ \A i \in DOMAIN L :
         /\ AcceptedInWindow(L, i, i) <= MAX_REQUESTS_PER_WINDOW
         /\ InBlock(L, i) => L[i].result = "429"
         /\ (~InBlock(L, i) /\ AcceptedInWindow(L, i, i - 1) >= MAX_REQUESTS_PER_WINDOW)
              => L[i].result = "429"
         /\ (~InBlock(L, i) /\ i > 1 /\ L[i - 1].at < BlockEnd(L, i))
              => L[i].result = "next"
    /\ SUSPICIOUS_IPS[ip] \in {NoEntry, BlockEnd(L, Len(L) + 1)}
    /\ \A k \in DOMAIN rateLimitStore[ip] :
         \E i \in DOMAIN L :
           L[i].result = "next" /\ L[i].at = rateLimitStore[ip][k]
    /\ Len(rateLimitStore[ip])
         <= Cardinality({ i \in DOMAIN L : L[i].result = "next" })

C18_Witness ==
  \E ip \in IPs :
    LET L == RequestsOf(log, ip) IN
    \E i, j, k \in DOMAIN L :
      /\ i < j /\ k = j + 1
      /\ L[i].result = "429" /\ ~InBlock(L, i)
      /\ InBlock(L, j) /\ L[j].at > L[i].at
      /\ ~InBlock(L, k) /\ L[k].result = "next"

====
